---------------------------- MODULE Spec2Model ----------------------------
(***************************************************************************)
(* The news scraper: the Express /api/scrape handler                       *)
(* (NewsScraper/server.js) and the serverless exports.handler              *)
(* (netlify function).  A request is validated, the list page is fetched,  *)
(* article links are discovered, every article is fetched and its fields   *)
(* are extracted with the selector table, and one response is sent.        *)
(*                                                                         *)
(* Strings are sequences of lexical tokens ("/" is always a token of its   *)
(* own), so that prefix, substring and suffix tests of the code are        *)
(* computed on the text.  An optional value (an attribute that may be      *)
(* undefined, the first element of a selection that may be empty) is a     *)
(* sequence of length at most one.                                         *)
(***************************************************************************)
EXTENDS Integers, Sequences, FiniteSets, TLC

-----------------------------------------------------------------------------
(* Bounds of the model *)

\* anchors on a list page
MaxAnchors == 2
\* selectors of one field's list that match an element of an article page
MaxMatched == 2
\* img elements of an article page
MaxImgs == 2
\* article links on a long list page
MaxLinks == 12

-----------------------------------------------------------------------------
(* Strings *)

None == <<>>
Some(v) == <<v>>

EmptyStr == <<>>

\* JavaScript truthiness of an optional string: undefined and '' are falsy
Truthy(opt) == opt # None /\ opt[1] # EmptyStr

\* an assignment that happens only when a value was found
Overwrite(old, found) == IF found # None THEN found[1] ELSE old

IsSpace(tok) == tok \in {" ", "\n", "\t"}

RECURSIVE TrimStart(_)
TrimStart(s) ==
    IF s = <<>> THEN <<>>
    ELSE IF IsSpace(Head(s)) THEN TrimStart(Tail(s)) ELSE s

RECURSIVE TrimEnd(_)
TrimEnd(s) ==
    IF s = <<>> THEN <<>>
    ELSE IF IsSpace(s[Len(s)]) THEN TrimEnd(SubSeq(s, 1, Len(s) - 1)) ELSE s

\* String.prototype.trim
Trim(s) == TrimEnd(TrimStart(s))

\* String.prototype.includes for a pattern made of whole tokens
Includes(s, pat) ==
    \E i \in 1..(Len(s) - Len(pat) + 1) : SubSeq(s, i, i + Len(pat) - 1) = pat

\* tokens whose first four characters are 'http'
HttpPrefixed == {"http", "https", "httpdocs"}

\* s.startsWith('http')
StartsWithHttp(s) == s # <<>> /\ s[1] \in HttpPrefixed

\* s.startsWith('data:')
StartsWithData(s) == Len(s) >= 2 /\ s[1] = "data" /\ s[2] = ":"

\* tokens that contain the characters 'svg'
SvgTokens == {"svg", "icon.svg", "svgs"}

\* s.includes('svg')
IncludesSvg(s) == \E i \in 1..Len(s) : s[i] \in SvgTokens

-----------------------------------------------------------------------------
(* URLs: `new URL(input)` and `new URL(input, base).href` *)

Schemes == {"http", "https", "mailto", "javascript"}

\* schemes whose URLs have an authority ("special" schemes of the URL standard)
SpecialSchemes == {"http", "https"}

\* host tokens the URL parser rejects
InvalidHosts == {"[", "a b"}

\* index of the first token of s that is in set, or Len(s) + 1
RECURSIVE FirstIn(_, _, _)
FirstIn(s, set, i) ==
    IF i > Len(s) THEN Len(s) + 1
    ELSE IF s[i] \in set THEN i ELSE FirstIn(s, set, i + 1)

\* the path tokens of a token string (up to the query or fragment) and the rest
PathPart(s) == SubSeq(s, 1, FirstIn(s, {"?", "#"}, 1) - 1)
AfterPath(s) == SubSeq(s, FirstIn(s, {"?", "#"}, 1), Len(s))
BeforeFragment(s) == SubSeq(s, 1, FirstIn(s, {"#"}, 1) - 1)

\* the segments of a path that begins with "/" ("" is the empty segment)
RECURSIVE Segs(_)
Segs(toks) ==
    IF Len(toks) <= 1 THEN <<"">>
    ELSE IF toks[2] = "/" THEN <<"">> \o Segs(Tail(toks))
    ELSE IF Len(toks) = 2 THEN <<toks[2]>>
    ELSE <<toks[2]>> \o Segs(SubSeq(toks, 3, Len(toks)))

RECURSIVE Unsegs(_)
Unsegs(segs) ==
    IF segs = <<>> THEN <<>>
    ELSE <<"/">> \o (IF Head(segs) = "" THEN <<>> ELSE <<Head(segs)>>)
             \o Unsegs(Tail(segs))

Pop(acc) == IF acc = <<>> THEN <<>> ELSE SubSeq(acc, 1, Len(acc) - 1)

\* removal of "." and ".." segments
RECURSIVE RemoveDots(_, _)
RemoveDots(segs, acc) ==
    IF segs = <<>> THEN acc
    ELSE LET last == Len(segs) = 1
             slash == IF last THEN <<"">> ELSE <<>>
         IN  IF Head(segs) = ".." THEN RemoveDots(Tail(segs), Pop(acc) \o slash)
             ELSE IF Head(segs) = "." THEN RemoveDots(Tail(segs), acc \o slash)
             ELSE RemoveDots(Tail(segs), acc \o <<Head(segs)>>)

\* a path always has at least one (possibly empty) segment
AtLeastRoot(segs) == IF segs = <<>> THEN <<"">> ELSE segs

NormPath(toks) == Unsegs(AtLeastRoot(RemoveDots(Segs(toks), <<>>)))

\* the serialisation of scheme://host followed by rest
specialUrl(scheme, host, path, after) ==
    <<scheme, "://", host>> \o (IF path = <<>> THEN <<"/">> ELSE NormPath(path))
                            \o after

\* `new URL(input)`: the serialised URL, or None when the constructor throws
ParseAbsolute(s) ==
    IF Len(s) < 2 \/ s[1] \notin Schemes THEN None
    ELSE IF s[1] \in SpecialSchemes
    THEN IF s[2] # "://" \/ Len(s) < 3 \/ s[3] \in InvalidHosts
              \/ s[3] \in {"/", "?", "#"}
         THEN None
         ELSE Some(specialUrl(s[1], s[3], PathPart(SubSeq(s, 4, Len(s))),
                              AfterPath(SubSeq(s, 4, Len(s)))))
    ELSE IF s[2] = ":" THEN Some(s) ELSE None

hostnameOf(u) == IF Len(u) >= 3 /\ u[2] = "://" THEN u[3] ELSE ""

\* the resolution of href against the parts of a parsed base URL
resolveParts(href, scheme, origin, bpath, bquery) ==
    IF href = <<>> THEN Some(origin \o bpath \o BeforeFragment(bquery))
    ELSE IF Len(href) >= 2 /\ href[1] \in Schemes /\ href[2] \in {":", "://"}
    THEN ParseAbsolute(href)
    ELSE IF href[1] = "//"
    THEN ParseAbsolute(<<scheme, "://">> \o Tail(href))
    ELSE IF href[1] = "/"
    THEN Some(origin \o NormPath(PathPart(href)) \o AfterPath(href))
    ELSE IF href[1] = "?"
    THEN Some(origin \o bpath \o href)
    ELSE IF href[1] = "#"
    THEN Some(origin \o bpath \o BeforeFragment(bquery) \o href)
    ELSE Some(origin
              \o Unsegs(AtLeastRoot(RemoveDots(
                     Pop(Segs(bpath)) \o Segs(<<"/">> \o PathPart(href)), <<>>)))
              \o AfterPath(href))

\* the resolution of href against the parsed base pb (None: the base is invalid)
resolveAgainst(href, pb) ==
    IF pb = None \/ pb[1][1] \notin SpecialSchemes THEN None
    ELSE resolveParts(href, pb[1][1], SubSeq(pb[1], 1, 3),
                      PathPart(SubSeq(pb[1], 4, Len(pb[1]))),
                      AfterPath(SubSeq(pb[1], 4, Len(pb[1]))))

\* `new URL(href, base).href`: None when it throws
ResolveUrl(href, base) == resolveAgainst(href, ParseAbsolute(base))

-----------------------------------------------------------------------------
(* The selector registry *)

absCbnTitle ==
    << ".news-title", ".article-title", ".story-title", "h2", "h3", "h1",
       ".news-list__title", ".news-list__headline", ".news-list__heading",
       ".news-list__name", ".news-list__label", ".news-list__text",
       ".news-list__content h1", ".news-list__content h2",
       ".news-list__content h3", ".news-list__content h4",
       ".news-list__content h5", ".news-list__content h6" >>

absCbnAuthor ==
    << ".author", ".byline", ".writer", ".article-author",
       "span[itemprop=\"author\"]", "span.author", "div.author",
       "meta[name=\"author\"]", "meta[property=\"article:author\"]",
       ".news-list__author", ".news-list__byline", ".news-list__writer",
       ".news-list__contributor", ".news-list__reporter",
       ".news-list__journalist" >>

absCbnDate ==
    << ".date", ".timestamp", ".article-date", ".publish-date", "time",
       "span[itemprop=\"datePublished\"]", "span.date",
       "meta[name=\"pubdate\"]", "meta[property=\"article:published_time\"]",
       ".news-list__date", ".news-list__time", ".news-list__timestamp",
       ".news-list__published", ".news-list__posted", ".news-list__updated" >>

absCbnImage ==
    << "img.news-image", "img.article-image", "img.story-image",
       ".news-image img", ".article-image img", ".story-image img",
       ".news-list__image img", ".news-list__photo img",
       ".news-list__thumbnail img", ".news-list__media img",
       ".news-list__picture img", ".news-list__illustration img",
       ".news-list__graphic img", ".news-list__banner img",
       ".news-list__cover img" >>

\* the tail shared by the two handlers' 'abs-cbn.com' article lists
absCbnArticleTail ==
    << ".news-list__item", ".news-list__article", ".news-list__card",
       ".news-list__story", ".news-list__content", ".news-list__wrapper",
       ".news-list__container", ".news-list__grid", ".news-list__row",
       ".news-list__col", ".news-list__box", ".news-list__panel",
       ".news-list__block", ".news-list__section" >>

defaultProfile ==
    [ article |-> << "article", ".article", ".post", ".news-item", ".story",
                     ".news-story", ".news-article", ".content",
                     ".main-content" >>,
      title   |-> << "h1", "h2", ".title", ".headline", ".story-title",
                     ".article-title", "h3" >>,
      author  |-> << ".author", ".byline", ".writer", ".author-name",
                     ".article-author", ".contributor",
                     "span[itemprop=\"author\"]", "span.author", "div.author",
                     "meta[name=\"author\"]",
                     "meta[property=\"article:author\"]" >>,
      date    |-> << ".date", ".published", ".timestamp", "time",
                     ".article-date", ".publish-date", ".posted-on",
                     "span[itemprop=\"datePublished\"]", "span.date",
                     "meta[name=\"pubdate\"]",
                     "meta[property=\"article:published_time\"]" >>,
      image   |-> << "img.featured-image", "img.article-image",
                     "img.news-image", ".featured-image img",
                     ".article-image img", ".news-image img",
                     "img[src*=\"news\"]", "img[src*=\"article\"]" >> ]

\* the handlers: the Express route and the serverless function
Handlers == {"express", "serverless"}

\* the websiteSelectors table of a handler, as a function of its keys
websiteSelectors(h) ==
    [ k \in {"abs-cbn.com", "default"} |->
        IF k = "default" THEN defaultProfile
        ELSE [ article |-> << ".news-item", ".article-item", ".news-card",
                              ".story-card", "article" >>
                           \o (IF h = "express" THEN << ".news-list-item" >>
                               ELSE << >>)
                           \o absCbnArticleTail,
               title   |-> absCbnTitle,
               author  |-> absCbnAuthor,
               date    |-> absCbnDate,
               image   |-> absCbnImage ] ]

\* hostnames that name a property every object inherits from
\* Object.prototype (hostnames are lower case, so 'toString' and the like
\* are none)
InheritedKeys == {"constructor", "__proto__"}

\* what table[hostname] yields for an inherited property: a function or an
\* object, truthy, without any selector list
Inherited(key) == [inherited |-> key]

\* whether the looked-up value has the selector lists
IsProfile(sel) == "article" \in DOMAIN sel

\* table[hostname] || table.default; the property lookup goes through the
\* prototype chain
profileIn(table, hostname) ==
    IF hostname \in DOMAIN table THEN table[hostname]
    ELSE IF hostname \in InheritedKeys THEN Inherited(hostname)
    ELSE table["default"]

\* websiteSelectors[hostname] || websiteSelectors.default
selectorsFor(h, hostname) == profileIn(websiteSelectors(h), hostname)

\* the selectors of the table for which selector.startsWith('meta') holds
MetaSelectors ==
    { "meta[name=\"author\"]", "meta[property=\"article:author\"]",
      "meta[name=\"pubdate\"]", "meta[property=\"article:published_time\"]" }

selectorStartsWithMeta(sel) == sel \in MetaSelectors

-----------------------------------------------------------------------------
(* Parsed documents (cheerio)                                              *)
(*                                                                         *)
(* An article document records, for every text selector that matches, the  *)
(* first matching element ($article(selector).first()): its text and its   *)
(* attributes; the texts of its heading elements (h1..h6) in document      *)
(* order; and its img elements in document order, each with the image      *)
(* selectors it matches.                                                   *)

AttrNames == {"content", "src", "data-src", "data-lazy-src", "data-original",
              "data-url", "data-srcset"}

NoAttrs == [a \in AttrNames |-> None]

\* an element with the given text and the given attributes set
Elem(sel, text, attrs) ==
    [sel |-> sel, text |-> text,
     attrs |-> [a \in AttrNames |-> IF a \in DOMAIN attrs THEN Some(attrs[a])
                                    ELSE None]]

\* $article(selector).first(): None when the selection is empty
First(doc, sel) ==
    LET m == {e \in doc.els : e.sel = sel}
    IN  IF m = {} THEN None ELSE Some(CHOOSE e \in m : TRUE)

\* an img element matching the given image selectors
Img(matches, attrs) ==
    [matches |-> matches,
     attrs |-> [a \in AttrNames |-> IF a \in DOMAIN attrs THEN Some(attrs[a])
                                    ELSE None]]

\* $article(selector).first() for an image selector: the first img of the
\* document that matches it
RECURSIVE FirstImg(_, _)
FirstImg(imgs, sel) ==
    IF imgs = <<>> THEN None
    ELSE IF sel \in Head(imgs).matches THEN Some(Head(imgs))
    ELSE FirstImg(Tail(imgs), sel)

\* .text() of a selection: '' for the empty selection
TextOf(found) == IF found = None THEN EmptyStr ELSE found[1].text

\* .attr(name) of a selection: undefined for the empty selection
AttrOf(found, name) == IF found = None THEN None ELSE found[1].attrs[name]

-----------------------------------------------------------------------------
(* Field extraction of the Express handler *)

\* the first non-None element of a sequence of optional values
RECURSIVE firstSome(_)
firstSome(opts) ==
    IF opts = <<>> THEN None
    ELSE IF Head(opts) # None THEN Head(opts) ELSE firstSome(Tail(opts))

\* selectors.title.forEach: every non-empty trimmed text overwrites the title
RECURSIVE titleForEach(_, _, _)
titleForEach(doc, sels, title) ==
    IF sels = <<>> THEN title
    ELSE LET found == Trim(TextOf(First(doc, Head(sels))))
         IN  titleForEach(doc, Tail(sels),
                          IF found # EmptyStr THEN found ELSE title)

\* the title: the selector pass, then the first heading of the document
\* `if (!title)`: the first heading of the document
orHeading(title, doc) ==
    IF title # EmptyStr THEN title
    ELSE IF doc.headings = <<>> THEN EmptyStr
    ELSE Trim(doc.headings[1])

\* a title pass that stops at the first selector with a non-empty text
expressTitleFirstWins(doc, selectors) ==
    orHeading(Overwrite(EmptyStr,
                        firstSome([i \in 1..Len(selectors.title) |->
                            IF Trim(TextOf(First(doc, selectors.title[i]))) # EmptyStr
                            THEN Some(Trim(TextOf(First(doc, selectors.title[i]))))
                            ELSE None])),
              doc)

expressTitle(doc, selectors) ==
    orHeading(titleForEach(doc, selectors.title, EmptyStr), doc)

\* a forEach step that reads the text of every element, meta elements too
textOnly(doc, selector) ==
    IF Trim(TextOf(First(doc, selector))) = EmptyStr THEN None
    ELSE Some(Trim(TextOf(First(doc, selector))))

\* one step of the author / date forEach: the value the selector yields
\* (None when it leaves the running value alone)
metaOrText(doc, selector) ==
    LET found == First(doc, selector)
    IN  IF found = None THEN None
        ELSE IF selectorStartsWithMeta(selector)
        THEN LET content == AttrOf(found, "content")
             IN  IF Truthy(content) THEN content ELSE None
        ELSE LET text == Trim(TextOf(found))
             IN  IF text # EmptyStr THEN Some(text) ELSE None

\* selectors.author.forEach / selectors.date.forEach
RECURSIVE metaOrTextForEach(_, _, _)
metaOrTextForEach(doc, sels, value) ==
    IF sels = <<>> THEN value
    ELSE metaOrTextForEach(doc, Tail(sels),
                           Overwrite(value, metaOrText(doc, Head(sels))))

expressAuthor(doc, selectors) == metaOrTextForEach(doc, selectors.author, EmptyStr)

expressDate(doc, selectors) == metaOrTextForEach(doc, selectors.date, EmptyStr)

\* file-name tokens ending in .jpg, .jpeg, .png, .gif or .webp, in any case
ImageExtTokens == {"a.jpg", "b.png", "c.JPEG", "d.webp", "e.gif"}

\* absoluteUrl.match(/\.(jpg|jpeg|png|gif|webp)(\?.*)?$/i)
matchesImageExt(u) ==
    /\ u # <<>>
    /\ \/ u[Len(u)] \in ImageExtTokens
       \/ \E i \in 1..(Len(u) - 1) : u[i] \in ImageExtTokens /\ u[i + 1] = "?"

\* the tokens of s before the first token in set
Before(s, set) == SubSeq(s, 1, FirstIn(s, set, 1) - 1)

\* attr('data-srcset')?.split(',')[0]?.trim().split(' ')[0]
firstSrcsetUrl(srcset) ==
    IF srcset = None THEN None
    ELSE Some(Before(Trim(Before(srcset[1], {","})), {" "}))

\* the candidate sources of an image element, in the order they are tried
possibleSrcs(attrs) ==
    << attrs["src"], attrs["data-src"], attrs["data-lazy-src"],
       attrs["data-original"], attrs["data-url"],
       firstSrcsetUrl(attrs["data-srcset"]) >>

\* the resolved absolute URL of a candidate: None when new URL() throws
absoluteUrlOf(src, base) ==
    IF StartsWithHttp(src) THEN Some(src) ELSE ResolveUrl(src, base)

\* whether a candidate passes the checks made before it is resolved
candidateOk(src) == Truthy(src) /\ ~StartsWithData(src[1]) /\ ~IncludesSvg(src[1])

\* the resolved candidate when it is image-shaped, else None
imageShaped(absoluteUrl) ==
    IF absoluteUrl # None /\ matchesImageExt(absoluteUrl[1]) THEN absoluteUrl
    ELSE None

\* a candidate loop that ends at the first non-empty candidate, valid or not
firstValidSrcStopsEarly(srcs, articleUrl) ==
    firstSome([i \in 1..Len(srcs) |->
                 IF ~Truthy(srcs[i]) THEN None
                 ELSE IF candidateOk(srcs[i])
                         /\ imageShaped(absoluteUrlOf(srcs[i][1], articleUrl)) # None
                 THEN imageShaped(absoluteUrlOf(srcs[i][1], articleUrl))
                 ELSE Some(EmptyStr)])

\* `for (const src of possibleSrcs)`: the first candidate that is non-empty,
\* no data: URI, free of 'svg', resolvable and image-shaped (None: no break)
firstValidSrc(srcs, articleUrl) ==
    firstSome([i \in 1..Len(srcs) |->
                 IF candidateOk(srcs[i])
                 THEN imageShaped(absoluteUrlOf(srcs[i][1], articleUrl))
                 ELSE None])

\* the valid source of the first element matching selector, if any
selectorImage(img, articleUrl) ==
    IF img = None THEN None
    ELSE firstValidSrc(possibleSrcs(img[1].attrs), articleUrl)

\* selectors.image.forEach: the inner `break` leaves the candidate loop only,
\* so every selector whose element has a valid source assigns imageUrl again
RECURSIVE imageForEach(_, _, _, _)
imageForEach(doc, sels, articleUrl, imageUrl) ==
    IF sels = <<>> THEN imageUrl
    ELSE imageForEach(doc, Tail(sels), articleUrl,
                      Overwrite(imageUrl,
                                selectorImage(FirstImg(doc.imgs, Head(sels)),
                                              articleUrl)))

\* the scan of every img of the document, left at the first valid source
imageFallback(imgs, articleUrl) ==
    Overwrite(EmptyStr,
              firstSome([i \in 1..Len(imgs) |->
                           firstValidSrc(possibleSrcs(imgs[i].attrs), articleUrl)]))

\* a fallback scan that runs whatever the selector pass found
orFallbackAlways(imageUrl, imgs, articleUrl) == imageFallback(imgs, articleUrl)

\* `if (!imageUrl)`: the fallback runs when the selector pass found nothing
orFallback(imageUrl, imgs, articleUrl) ==
    IF imageUrl = EmptyStr THEN imageFallback(imgs, articleUrl) ELSE imageUrl

expressImage(doc, selectors, articleUrl) ==
    orFallback(imageForEach(doc, selectors.image, articleUrl, EmptyStr),
               doc.imgs, articleUrl)

-----------------------------------------------------------------------------
(* Date formatting of the Express handler.  A zone is the offset of the     *)
(* server's time zone, in hours east of UTC.  A date-only ISO string is     *)
(* read as UTC midnight, every other form as midnight in the server's zone. *)

\* the offsets the server process runs in
TimeZones == {-5, 0, 8}

YearTokens == {"2024"}
\* one- or two-digit numbers, with their two-digit form
TwoDigit == [t \in {"1", "01", "5", "05", "13", "45"} |->
               CASE t = "1" -> "01" [] t = "5" -> "05" [] OTHER -> t]
MonthNames == [t \in {"May"} |-> "05"]
ValidMonths == {"01", "05"}
ValidDays == {"01", "05", "13"}
DateSeps == {"-", "/"}

IsNum(t) == t \in DOMAIN TwoDigit

\* a calendar date, or None for an Invalid Date
Calendar(y, m, d) ==
    IF m \in ValidMonths /\ d \in ValidDays THEN Some(<<y, m, d>>) ELSE None

\* the calendar day a date string names: year-month-day, month-day-year and
\* 'Month d, yyyy' forms; anything else is an Invalid Date (None)
DateFields(s) ==
    IF Len(s) = 5 /\ s[1] \in YearTokens /\ s[2] \in DateSeps /\ IsNum(s[3])
       /\ s[4] = s[2] /\ IsNum(s[5])
    THEN Calendar(s[1], TwoDigit[s[3]], TwoDigit[s[5]])
    ELSE IF Len(s) = 5 /\ IsNum(s[1]) /\ s[2] \in DateSeps /\ IsNum(s[3])
            /\ s[4] = s[2] /\ s[5] \in YearTokens
    THEN Calendar(s[5], TwoDigit[s[1]], TwoDigit[s[3]])
    ELSE IF Len(s) = 6 /\ s[1] \in DOMAIN MonthNames /\ s[2] = " " /\ IsNum(s[3])
            /\ s[4] = "," /\ s[5] = " " /\ s[6] \in YearTokens
    THEN Calendar(s[6], MonthNames[s[1]], TwoDigit[s[3]])
    ELSE None

\* the date-only ISO form YYYY-MM-DD, which is read as UTC
IsDateOnlyIso(s) ==
    /\ Len(s) = 5 /\ s[1] \in YearTokens /\ s[2] = "-" /\ s[4] = "-"
    /\ IsNum(s[3]) /\ TwoDigit[s[3]] = s[3]
    /\ IsNum(s[5]) /\ TwoDigit[s[5]] = s[5]

\* the calendar day before c
PrevDay(c) ==
    CASE c[3] = "13" -> <<c[1], c[2], "12">>
      [] c[3] = "05" -> <<c[1], c[2], "04">>
      [] c[3] = "01" /\ c[2] = "05" -> <<c[1], "04", "30">>
      [] OTHER -> <<"2023", "12", "31">>

\* a Date object: the UTC calendar day and the UTC hour of its instant
Instant(c, hour) == [day |-> c, hour |-> hour]

\* midnight of calendar day c in the zone `zone` hours east of UTC
LocalMidnight(c, zone) ==
    IF zone > 0 THEN Instant(PrevDay(c), 24 - zone) ELSE Instant(c, 0 - zone)

\* `new Date(s)` on a server in `zone`: None for an Invalid Date
DateParse(s, zone) ==
    IF DateFields(s) = None THEN None
    ELSE IF IsDateOnlyIso(s) THEN Some(Instant(DateFields(s)[1], 0))
    ELSE Some(LocalMidnight(DateFields(s)[1], zone))

\* the time part of an ISO-8601 timestamp at a full hour
TimeToken(hour) ==
    CASE hour = 0 -> "T00:00:00.000Z"
      [] hour = 5 -> "T05:00:00.000Z"
      [] OTHER -> "T16:00:00.000Z"

\* Date.prototype.toISOString
toISOString(t) == <<t.day[1], "-", t.day[2], "-", t.day[3], TimeToken(t.hour)>>

\* whether /(\d{4}[-/]\d{1,2}[-/]\d{1,2})|(\d{1,2}[-/]\d{1,2}[-/]\d{4})/ matches at i
dateRegexAt(s, i) ==
    /\ i + 4 <= Len(s)
    /\ s[i + 1] \in DateSeps /\ s[i + 3] \in DateSeps /\ IsNum(s[i + 2])
    /\ \/ s[i] \in YearTokens /\ IsNum(s[i + 4])
       \/ IsNum(s[i]) /\ s[i + 4] \in YearTokens

\* date.match(...): the leftmost match, None when there is none
dateMatch(s) ==
    LET at == {i \in 1..Len(s) : dateRegexAt(s, i)}
    IN  IF at = {} THEN None
        ELSE LET i == CHOOSE j \in at : \A k \in at : j <= k
             IN  Some(SubSeq(s, i, i + 4))

\* formattedDate: '' when the raw date is empty or cannot be formatted
formattedDateOf(date, zone) ==
    IF date = EmptyStr THEN EmptyStr
    ELSE IF DateParse(date, zone) # None THEN toISOString(DateParse(date, zone)[1])
    ELSE IF dateMatch(date) # None /\ DateParse(dateMatch(date)[1], zone) # None
    THEN toISOString(DateParse(dateMatch(date)[1], zone)[1])
    ELSE EmptyStr

\* new Date().toISOString() at extraction time
NowISO == <<"now">>

-----------------------------------------------------------------------------
(* Field extraction of the serverless handler: every loop is left at the    *)
(* first selector that matches an element                                   *)

\* `for (const selector of ...) { if (el.length) { v = el.text().trim(); break } }`
RECURSIVE firstMatchText(_, _)
firstMatchText(doc, sels) ==
    IF sels = <<>> THEN EmptyStr
    ELSE LET el == First(doc, Head(sels))
         IN  IF el # None THEN Trim(TextOf(el)) ELSE firstMatchText(doc, Tail(sels))

\* the image loop: the src of the first matching element, resolved when it
\* does not start with 'http'.  [threw |-> TRUE] when new URL() throws.
resolvedImage(r) == [threw |-> r = None, image |-> r]

srcImage(image, articleUrl) ==
    IF Truthy(image) /\ ~StartsWithHttp(image[1])
    THEN resolvedImage(ResolveUrl(image[1], articleUrl))
    ELSE [threw |-> FALSE, image |-> image]

RECURSIVE serverlessImage(_, _, _)
serverlessImage(doc, sels, articleUrl) ==
    IF sels = <<>> THEN [threw |-> FALSE, image |-> Some(EmptyStr)]
    ELSE IF FirstImg(doc.imgs, Head(sels)) = None
    THEN serverlessImage(doc, Tail(sels), articleUrl)
    ELSE srcImage(AttrOf(FirstImg(doc.imgs, Head(sels)), "src"), articleUrl)

-----------------------------------------------------------------------------
(* Link discovery.  A list page is its anchors in document order, each with *)
(* its href attribute and the selectors of the elements that contain it.    *)

FourDigitTokens == {"2024"}
TwoDigitTokens == {"01", "05", "13", "45"}
\* tokens that begin with two digits
StartsTwoDigits == TwoDigitTokens \cup {"123"}

\* absoluteUrl.match(/\d{4}\/\d{2}\/\d{2}/)
matchesDatePath(u) ==
    \E i \in 1..(Len(u) - 4) :
        /\ u[i] \in FourDigitTokens /\ u[i + 1] = "/"
        /\ u[i + 2] \in TwoDigitTokens /\ u[i + 3] = "/"
        /\ u[i + 4] \in StartsTwoDigits

\* the test that keeps a resolved link as a candidate
looksLikeArticle(absoluteUrl) ==
    \/ Includes(absoluteUrl, <<"/", "news", "/">>)
    \/ Includes(absoluteUrl, <<"/", "article", "/">>)
    \/ Includes(absoluteUrl, <<"/", "story", "/">>)
    \/ matchesDatePath(absoluteUrl)

\* an array in place of the Set: push keeps duplicates
SetAddDuplicates(set, x) == Append(set, x)

\* Set.prototype.add on a set kept in insertion order
SetAdd(set, x) == IF \E i \in 1..Len(set) : set[i] = x THEN set ELSE Append(set, x)

\* the body of `links.each`: resolve the href and add it when it looks like
\* an article; an href that does not resolve is logged and skipped
addResolved(articleLinks, absoluteUrl) ==
    IF absoluteUrl = None THEN articleLinks
    ELSE IF looksLikeArticle(absoluteUrl[1])
    THEN SetAdd(articleLinks, absoluteUrl[1])
    ELSE articleLinks

addLink(articleLinks, href, url) ==
    IF ~Truthy(href) THEN articleLinks
    ELSE addResolved(articleLinks, absoluteUrlOf(href[1], url))

RECURSIVE eachAnchor(_, _, _)
eachAnchor(anchors, url, articleLinks) ==
    IF anchors = <<>> THEN articleLinks
    ELSE eachAnchor(Tail(anchors), url, addLink(articleLinks, Head(anchors).href, url))

\* the anchors found under the elements that match articleSelector
anchorsWithin(doc, articleSelector) ==
    LET inside(a) == articleSelector \in a.within
    IN  SelectSeq(doc.anchors, inside)

\* selectors.article.forEach
RECURSIVE containerPass(_, _, _, _)
containerPass(doc, sels, url, articleLinks) ==
    IF sels = <<>> THEN articleLinks
    ELSE containerPass(doc, Tail(sels), url,
                       eachAnchor(anchorsWithin(doc, Head(sels)), url, articleLinks))

\* a general approach that runs whatever the container pass found
generalApproachAlways(articleLinks, doc, url) ==
    eachAnchor(doc.anchors, url, articleLinks)

\* `if (articleLinks.size === 0)`: the general approach, every anchor of
\* the document
generalApproach(articleLinks, doc, url) ==
    IF Len(articleLinks) = 0 THEN eachAnchor(doc.anchors, url, <<>>)
    ELSE articleLinks

discoverLinks(doc, selectors, url) ==
    generalApproach(containerPass(doc, selectors.article, url, <<>>), doc, url)

\* link discovery with the value looked up in the table: when it has no
\* article list, `selectors.article.forEach` throws a TypeError
discovery(doc, sel, url) ==
    IF IsProfile(sel) THEN [threw |-> FALSE, links |-> discoverLinks(doc, sel, url)]
    ELSE [threw |-> TRUE, links |-> <<>>]

-----------------------------------------------------------------------------
(* Inputs: requests, upstream responses, documents *)

SiteUrl == <<"https", "://", "site.com", "/">>
AbsCbnUrl == <<"https", "://", "abs-cbn.com", "/", "world", "/">>
\* a host named like a property of Object.prototype
ConstructorUrl == <<"http", "://", "constructor", "/">>

\* the url member of a request body: missing, empty, malformed, well-formed
UrlInputs ==
    { None, Some(EmptyStr), Some(<<"site.com", "/", "news">>),
      Some(SiteUrl), Some(AbsCbnUrl), Some(ConstructorUrl) }

\* req.body as the Express handler sees it (after express.json()), and
\* event.httpMethod / event.body of the serverless handler: a body that is
\* absent or no JSON text, or the JSON text of an object
Requests ==
    [handler : {"express"}, method : {"POST"}, body : {"object"}, url : UrlInputs]
    \cup [handler : {"serverless"}, method : {"POST"}, body : {"object"},
          url : UrlInputs]
    \cup [handler : {"serverless"}, method : {"POST"},
          body : {"absent", "malformed"}, url : {None}]
    \cup [handler : {"serverless"}, method : {"GET"}, body : {"absent"},
          url : {None}]

UpstreamStatuses == {200, 201, 403, 404, 500, 503}

\* the hrefs of the anchors of a list page
HrefNews == <<"/", "news", "/", "123">>
HrefAbout == <<"/", "about">>
HrefDated == <<"2024", "/", "05", "/", "01", "/", "x">>
HrefOther == <<"https", "://", "other.com", "/", "story", "/", "z">>
HrefBad == <<"//", "[">>
\* a relative href whose first characters are 'http'
HrefHttpdocs == <<"httpdocs", "/", "news", "/", "1">>
\* '/news/' in the query string only
HrefQuery == <<"/", "about", "?", "next=", "/", "news", "/", "1">>

Anchors ==
    { [href |-> Some(HrefNews),  within |-> {}],
      [href |-> Some(HrefNews),  within |-> {"article"}],
      [href |-> Some(HrefNews),  within |-> {".story-card"}],
      [href |-> Some(HrefDated), within |-> {".news-item"}],
      [href |-> Some(HrefDated), within |-> {}],
      [href |-> Some(HrefOther), within |-> {"article", ".news-item"}],
      [href |-> Some(HrefAbout), within |-> {"article"}],
      [href |-> Some(HrefBad),   within |-> {".news-item"}],
      [href |-> Some(EmptyStr),  within |-> {"article"}],
      [href |-> Some(HrefHttpdocs), within |-> {}],
      [href |-> Some(HrefQuery), within |-> {"article"}],
      [href |-> None,            within |-> {}] }

RECURSIVE SeqsUpTo(_, _)
SeqsUpTo(S, n) ==
    IF n = 0 THEN {<<>>}
    ELSE LET shorter == SeqsUpTo(S, n - 1)
         IN  shorter \cup {Append(q, x) : q \in shorter, x \in S}

ListDocs == {[anchors |-> a] : a \in SeqsUpTo(Anchors, MaxAnchors)}

NoDoc == [anchors |-> <<>>]

\* article pages
IsoDate == <<"2024", "-", "05", "-", "01">>

DocEmpty == [els |-> {}, headings |-> <<>>, imgs |-> <<>>]

DocFull ==
    [els |-> { Elem("h1", <<"A">>, <<>>),
               Elem(".author", <<" ", "B">>, <<>>),
               Elem("time", IsoDate, <<>>) },
     headings |-> << <<"A">> >>,
     imgs |-> << Img({"img.article-image"}, [src |-> <<"/", "a.jpg">>]) >>]

\* no title anywhere; an author, a date and an image
DocUntitled ==
    [els |-> { Elem(".author", <<"B">>, <<>>),
               Elem("time", IsoDate, <<>>) },
     headings |-> <<>>,
     imgs |-> << Img({}, [src |-> <<"/", "a.jpg">>]) >>]

\* a blank h1 before an h2 with text
DocTwoTitles ==
    [els |-> { Elem("h1", <<" ">>, <<>>), Elem("h2", <<"B">>, <<>>) },
     headings |-> << <<" ">> >>,
     imgs |-> <<>>]

\* a title, and an image whose src does not resolve
DocBadImage ==
    [els |-> { Elem("h1", <<"A">>, <<>>) },
     headings |-> << <<"A">> >>,
     imgs |-> << Img({"img.article-image"}, [src |-> <<"//", "[">>]) >>]

ArticleDocs == {DocEmpty, DocFull, DocUntitled, DocTwoTitles, DocBadImage}

\* what a fetch can end in: a response with a status and a body (a document,
\* or a body that cheerio.load fails on), or no response at all
ListOutcomes ==
    [kind : {"response"}, status : {200}, doc : ListDocs, parses : {TRUE}]
    \cup [kind : {"response"}, status : UpstreamStatuses \ {200}, doc : {NoDoc},
          parses : {TRUE}]
    \cup [kind : {"response"}, status : {200}, doc : {NoDoc}, parses : {FALSE}]
    \cup [kind : {"noResponse"}, status : {0}, doc : {NoDoc}, parses : {FALSE}]

ArticleOutcomes ==
    [kind : {"response"}, status : {200, 201}, doc : ArticleDocs, parses : {TRUE}]
    \cup [kind : {"response"}, status : {404, 503}, doc : {DocEmpty}, parses : {TRUE}]
    \cup [kind : {"response"}, status : {200}, doc : {DocEmpty}, parses : {FALSE}]
    \cup [kind : {"noResponse"}, status : {0}, doc : {DocEmpty}, parses : {FALSE}]

-----------------------------------------------------------------------------
(* The handlers *)

VARIABLES
    request,       \* the request being served
    pc,            \* the phase of the request
    response,      \* the response sent, None before
    upstream,      \* what the list-page fetch ended in, None before
    listDoc,       \* $: the parsed list page
    articleLinks,  \* the candidate links, in insertion order
    idx,           \* the number of candidate links processed
    newsItems,     \* the records accumulated
    fetches,       \* every axios.get issued: <<kind, url>>
    lastArticle,   \* how the latest article ended
    failures,      \* whether some article failed (was not fetched with 200)
    exProfile,     \* field extraction alone: the key of the profile,
    exDoc,         \*   the article document
    exOut,         \*   and the fields extracted from it, None before
    exBody,        \*   the body container of the article, which the variant
                   \*   of the handler that extracts the article's text reads
    tz,            \* the server's time zone: hours east of UTC
    script,        \* two requests in flight: the upstream responses each meets,
    call,          \*   each invocation's request, position and response,
    store,         \*   the link sets and result lists,
    registry,      \*   and the selector tables
    client         \* the React client: its state and its calls in flight

requestVars == <<request, pc, response, upstream, listDoc, articleLinks, idx,
                 newsItems, fetches, lastArticle, failures>>

extractVars == <<exProfile, exDoc, exOut, exBody>>

twoVars == <<script, call, store, registry>>

vars == <<requestVars, extractVars, tz, twoVars, client>>

\* no client is mounted
NoClient ==
    [url |-> EmptyStr, news |-> <<>>, loading |-> FALSE, error |-> EmptyStr,
     serverStatus |-> "checking", check |-> "unmounted", scrape |-> "idle"]

\* an article page without a body container
NoBody == [matched |-> FALSE, text |-> EmptyStr, stripped |-> {}, paragraphs |-> <<>>]

\* the article-count limit of the serverless handler
ArticleCap == 10

\* validateStatus of the axios.get calls of the Express handler and of the
\* list-page fetch of the serverless handler
validateStatus(status) == status >= 200 /\ status < 500

\* axios's default validateStatus (the serverless article fetch)
defaultValidateStatus(status) == status >= 200 /\ status < 300

\* the timeout option of an axios.get, in milliseconds: None where the call
\* passes none, which leaves axios's default of no timeout
fetchTimeout(handler, which) ==
    IF handler = "serverless" /\ which = "article" THEN None ELSE Some(10000)

\* what a fetch ends in for the caller: from an upstream that never answers,
\* a request error once the timeout has passed
afterTimeout(o, timeout) ==
    IF o.kind = "silent" /\ timeout # None THEN [o EXCEPT !.kind = "noResponse"]
    ELSE o

\* an error thrown by axios or by the handler's own code
ErrResponse(status) == [type |-> "response", status |-> status]
ErrRequest == [type |-> "request", status |-> 0]
ErrOther == [type |-> "other", status |-> 0]

Reply(status, message, news) ==
    Some([status |-> status, message |-> message, news |-> news])

\* an outer catch that answers every error with the generic 500
expressCatchGeneric(error) ==
    Reply(500, "No response received from the website", <<>>)

\* the outer catch of the Express handler
expressCatch(error) ==
    IF error.type = "response"
    THEN Reply(error.status, "Server responded with status", <<>>)
    ELSE IF error.type = "request"
    THEN Reply(500, "No response received from the website", <<>>)
    ELSE Reply(500, "Error setting up the request", <<>>)

\* the outer catch of the serverless handler
serverlessCatch(error) == Reply(500, "error.message", <<>>)

outerCatch(handler, error) ==
    IF handler = "express" THEN expressCatch(error) ELSE serverlessCatch(error)

\* the checks before the list-page fetch: the response they end in, or None
\* when the request goes on to the fetch
validation(req) ==
    IF req.handler = "serverless" /\ req.method # "POST"
    THEN Reply(405, "Method not allowed", <<>>)
    ELSE IF req.handler = "serverless" /\ req.body # "object"
    THEN serverlessCatch(ErrOther)
    ELSE IF ~Truthy(req.url)
    THEN Reply(400, "URL is required", <<>>)
    ELSE IF ParseAbsolute(req.url[1]) = None
    THEN Reply(400, "Invalid URL format", <<>>)
    ELSE None

\* status handling without the 403 branch
listStatusHandlingNo403(handler, o) ==
    IF o.kind = "noResponse" THEN outerCatch(handler, ErrRequest)
    ELSE IF ~validateStatus(o.status) THEN outerCatch(handler, ErrResponse(o.status))
    ELSE IF o.status # 200
    THEN Reply(o.status, "Failed to fetch the website", <<>>)
    ELSE IF ~o.parses THEN outerCatch(handler, ErrOther)
    ELSE None

\* status handling without the `!== 200` branch: every accepted status
\* other than 403 goes on to parsing
listStatusHandlingParsesAll(handler, o) ==
    IF o.kind = "noResponse" THEN outerCatch(handler, ErrRequest)
    ELSE IF ~validateStatus(o.status) THEN outerCatch(handler, ErrResponse(o.status))
    ELSE IF o.status = 403
    THEN Reply(403, "Access to this website is forbidden", <<>>)
    ELSE IF ~o.parses THEN outerCatch(handler, ErrOther)
    ELSE None

\* what the handler does with the outcome of the list-page fetch: the
\* response it ends in, or None when the page is parsed
listStatusHandling(handler, o) ==
    IF o.kind = "noResponse" THEN outerCatch(handler, ErrRequest)
    ELSE IF ~validateStatus(o.status) THEN outerCatch(handler, ErrResponse(o.status))
    ELSE IF o.status = 403
    THEN Reply(403, "Access to this website is forbidden", <<>>)
    ELSE IF o.status # 200
    THEN Reply(o.status, "Failed to fetch the website", <<>>)
    ELSE IF ~o.parses THEN outerCatch(handler, ErrOther)
    ELSE None

\* How one article ends:
\*   "pushed"      a record is appended to newsItems
\*   "untitled"    fetched and extracted, no title: nothing is appended
\*   "non200"      a response other than 200 that is not an error: skipped
\*   "caught"      an error, caught by the try/catch inside the loop
\*   "propagated"  an error that leaves the loop
\*   "pending"     it does not end: the fetch is awaited for ever
Ended(how, item) == [how |-> how, item |-> item]

NoItem == [title |-> EmptyStr]

\* a push without the `if (title)` guard
expressPushUnguarded(title, author, formattedDate, imageUrl, hostname, articleUrl) ==
    Ended("pushed",
          [ title    |-> title,
            author   |-> IF author # EmptyStr THEN author ELSE <<"Unknown">>,
            date     |-> IF formattedDate # EmptyStr THEN formattedDate ELSE NowISO,
            source   |-> hostname,
            url      |-> articleUrl,
            imageUrl |-> IF imageUrl # EmptyStr THEN Some(imageUrl) ELSE None ])

\* a push that takes the formatted date as it is
expressPushNoDateDefault(title, author, formattedDate, imageUrl, hostname, articleUrl) ==
    IF title # EmptyStr
    THEN Ended("pushed",
           [ title    |-> title,
             author   |-> IF author # EmptyStr THEN author ELSE <<"Unknown">>,
             date     |-> formattedDate,
             source   |-> hostname,
             url      |-> articleUrl,
             imageUrl |-> IF imageUrl # EmptyStr THEN Some(imageUrl) ELSE None ])
    ELSE Ended("untitled", NoItem)

\* `if (title) newsItems.push({...})` of the Express handler
expressPush(title, author, formattedDate, imageUrl, hostname, articleUrl) ==
    IF title # EmptyStr
    THEN Ended("pushed",
           [ title    |-> title,
             author   |-> IF author # EmptyStr THEN author ELSE <<"Unknown">>,
             date     |-> IF formattedDate # EmptyStr THEN formattedDate ELSE NowISO,
             source   |-> hostname,
             url      |-> articleUrl,
             imageUrl |-> IF imageUrl # EmptyStr THEN Some(imageUrl) ELSE None ])
    ELSE Ended("untitled", NoItem)

\* an article loop without the try/catch around its body
expressArticleUncaught(o, selectors, hostname, articleUrl) ==
    IF o.kind = "noResponse" \/ ~validateStatus(o.status)
    THEN Ended("propagated", NoItem)
    ELSE IF o.status # 200 THEN Ended("non200", NoItem)
    ELSE IF ~o.parses THEN Ended("propagated", NoItem)
    ELSE expressPush(expressTitle(o.doc, selectors),
                     expressAuthor(o.doc, selectors),
                     formattedDateOf(expressDate(o.doc, selectors), tz),
                     expressImage(o.doc, selectors, articleUrl),
                     hostname, articleUrl)

\* the body of the article loop of the Express handler
expressArticle(o, selectors, hostname, articleUrl) ==
    IF o.kind = "noResponse" \/ ~validateStatus(o.status) THEN Ended("caught", NoItem)
    ELSE IF o.status # 200 THEN Ended("non200", NoItem)
    ELSE IF ~o.parses THEN Ended("caught", NoItem)
    ELSE expressPush(expressTitle(o.doc, selectors),
                     expressAuthor(o.doc, selectors),
                     formattedDateOf(expressDate(o.doc, selectors), tz),
                     expressImage(o.doc, selectors, articleUrl),
                     hostname, articleUrl)

\* `if (title) newsItems.push({...})` of the serverless handler
serverlessPush(title, author, date, img, articleUrl) ==
    IF img.threw THEN Ended("caught", NoItem)
    ELSE IF title # EmptyStr
    THEN Ended("pushed",
           [ title |-> title, author |-> author, date |-> date,
             image |-> img.image, url |-> articleUrl ])
    ELSE Ended("untitled", NoItem)

\* the body of the article loop of the serverless handler
serverlessArticle(o, selectors, articleUrl) ==
    IF o.kind = "noResponse" \/ ~defaultValidateStatus(o.status)
    THEN Ended("caught", NoItem)
    ELSE IF ~o.parses THEN Ended("caught", NoItem)
    ELSE serverlessPush(firstMatchText(o.doc, selectors.title),
                        firstMatchText(o.doc, selectors.author),
                        firstMatchText(o.doc, selectors.date),
                        serverlessImage(o.doc, selectors.image, articleUrl),
                        articleUrl)

\* the response after the article loop
finalResponse(handler, items) ==
    IF handler = "express"
    THEN IF Len(items) = 0
         THEN Reply(404, "No news articles found", <<>>)
         ELSE Reply(200, "news", items)
    ELSE Reply(200, "articles", items)

\* a loop over every link of the set
linksToProcessAll(handler, links) == links

\* Array.from(articleLinks).slice(0, 10) in the serverless handler; the
\* Express handler iterates the whole set
linksToProcess(handler, links) ==
    IF handler = "serverless" /\ Len(links) > ArticleCap
    THEN SubSeq(links, 1, ArticleCap)
    ELSE links

hostname == hostnameOf(ParseAbsolute(request.url[1])[1])
selectors == selectorsFor(request.handler, hostname)

\* the selector tables as the handlers define them
Registry == [h \in Handlers |-> websiteSelectors(h)]

\* no second request is in flight
TwoIdle ==
    /\ script = <<>>
    /\ call = <<>>
    /\ store = <<>>
    /\ registry = Registry

-----------------------------------------------------------------------------
(* The state machine of one request *)

Init ==
    /\ request \in Requests
    /\ pc = "Validating"
    /\ response = None
    /\ upstream = None
    /\ listDoc = NoDoc
    /\ articleLinks = <<>>
    /\ idx = 0
    /\ newsItems = <<>>
    /\ fetches = <<>>
    /\ lastArticle = "none"
    /\ failures = FALSE
    /\ exProfile = "default"
    /\ exDoc = DocEmpty
    /\ exOut = None
    /\ exBody = NoBody
    /\ client = NoClient
    /\ tz = 0
    /\ TwoIdle

\* the request is rejected before any fetch
Reject ==
    /\ pc = "Validating"
    /\ validation(request) # None
    /\ response' = validation(request)
    /\ pc' = "Failed"
    /\ UNCHANGED <<request, upstream, listDoc, articleLinks, idx, newsItems,
                   fetches, lastArticle, failures, extractVars, tz, client, twoVars>>

\* the list page is requested: axios.get(url, ...)
FetchList ==
    /\ pc = "Validating"
    /\ validation(request) = None
    /\ fetches' = Append(fetches, <<"list", request.url[1]>>)
    /\ pc' = "FetchingList"
    /\ UNCHANGED <<request, response, upstream, listDoc, articleLinks, idx,
                   newsItems, lastArticle, failures, extractVars, tz, client, twoVars>>

\* status handling whose 403 and non-200 branches send the response without
\* `return`: the handler goes on to parse the body
ListFailedNoReturn ==
    /\ pc = "FetchingList"
    /\ \E o \in ListOutcomes :
        /\ listStatusHandling(request.handler, o) # None
        /\ upstream' = Some([kind |-> o.kind, status |-> o.status, parses |-> o.parses])
        /\ response' = listStatusHandling(request.handler, o)
        /\ pc' = IF o.kind = "response" /\ validateStatus(o.status) /\ o.parses
                 THEN "DiscoveringLinks" ELSE "Failed"
    /\ UNCHANGED <<request, listDoc, articleLinks, idx, newsItems, fetches,
                   lastArticle, failures, extractVars, tz, client, twoVars>>

\* the list-page fetch ends in one of outcomes and the request fails on it
listFails(outcomes) ==
    /\ pc = "FetchingList"
    /\ \E o \in {afterTimeout(u, fetchTimeout(request.handler, "list")) :
                    u \in outcomes} :
        /\ o.kind # "silent"
        /\ listStatusHandling(request.handler, o) # None
        /\ upstream' = Some([kind |-> o.kind, status |-> o.status, parses |-> o.parses])
        /\ response' = listStatusHandling(request.handler, o)
    /\ pc' = "Failed"
    /\ UNCHANGED <<request, listDoc, articleLinks, idx, newsItems, fetches,
                   lastArticle, failures, extractVars, tz, client, twoVars>>

\* the list-page fetch ends and the request fails on it
ListFailed == listFails(ListOutcomes)

\* the list-page fetch ends with 200, in one of outcomes, and the page is
\* parsed
listLoads(outcomes) ==
    /\ pc = "FetchingList"
    /\ \E o \in {afterTimeout(u, fetchTimeout(request.handler, "list")) :
                    u \in outcomes} :
        /\ o.kind # "silent"
        /\ listStatusHandling(request.handler, o) = None
        /\ upstream' = Some([kind |-> o.kind, status |-> o.status, parses |-> o.parses])
        /\ listDoc' = o.doc
    /\ pc' = "DiscoveringLinks"
    /\ UNCHANGED <<request, response, articleLinks, idx, newsItems, fetches,
                   lastArticle, failures, extractVars, tz, client, twoVars>>

\* the list-page fetch ends with 200 and the page is parsed
ListLoaded == listLoads(ListOutcomes)

\* the candidate links are collected
DiscoverLinks ==
    /\ pc = "DiscoveringLinks"
    /\ \E found \in {discovery(listDoc, selectors, request.url[1])} :
        IF found.threw
        THEN /\ response' = outerCatch(request.handler, ErrOther)
             /\ pc' = "Failed"
             /\ articleLinks' = articleLinks
        ELSE /\ response' = response
             /\ pc' = "FetchingArticles"
             /\ articleLinks' = linksToProcess(request.handler, found.links)
    /\ UNCHANGED <<request, upstream, listDoc, idx, newsItems, fetches,
                   lastArticle, failures, extractVars, tz, client, twoVars>>

\* how the article at articleUrl ends for the outcome o of its fetch
articleEnd(handler, o, sels, host, articleUrl) ==
    IF afterTimeout(o, fetchTimeout(handler, "article")).kind = "silent"
    THEN Ended("pending", NoItem)
    ELSE IF handler = "express"
    THEN expressArticle(afterTimeout(o, fetchTimeout(handler, "article")),
                        sels, host, articleUrl)
    ELSE serverlessArticle(o, sels, articleUrl)

\* one iteration of the article loop, the fetch ending in one of outcomes
articleStep(outcomes) ==
    /\ pc = "FetchingArticles"
    /\ idx < Len(articleLinks)
    /\ lastArticle # "pending"
    /\ \E o \in outcomes :
        \E end \in {articleEnd(request.handler, o, selectors, hostname,
                               articleLinks[idx + 1])} :
            /\ fetches' = Append(fetches, <<"article", articleLinks[idx + 1]>>)
            /\ lastArticle' = end.how
            /\ failures' = (failures \/ end.how \in {"caught", "non200", "propagated"})
            /\ idx' = IF end.how \in {"propagated", "pending"} THEN idx ELSE idx + 1
            /\ newsItems' = IF end.how = "pushed" THEN Append(newsItems, end.item)
                            ELSE newsItems
            /\ response' = IF end.how = "propagated"
                           THEN outerCatch(request.handler, ErrOther)
                           ELSE response
            /\ pc' = IF end.how = "propagated" THEN "Failed" ELSE pc
    /\ UNCHANGED <<request, upstream, listDoc, articleLinks, extractVars, tz, client, twoVars>>

\* one iteration of the article loop: the fetch and what follows it
ProcessArticle == articleStep(ArticleOutcomes)

\* the loop is over: the response is sent
Finish ==
    /\ pc = "FetchingArticles"
    /\ idx = Len(articleLinks)
    /\ response' = finalResponse(request.handler, newsItems)
    /\ pc' = "Done"
    /\ UNCHANGED <<request, upstream, listDoc, articleLinks, idx, newsItems,
                   fetches, lastArticle, failures, extractVars, tz, client, twoVars>>

Next ==
    \/ Reject
    \/ FetchList
    \/ ListFailed
    \/ ListLoaded
    \/ DiscoverLinks
    \/ ProcessArticle
    \/ Finish

Spec == Init /\ [][Next]_vars

-----------------------------------------------------------------------------
(* Field extraction alone: the Express handler's extraction applied to      *)
(* every document in which at most MaxMatched selectors of one field's list *)
(* match, or that holds at most MaxImgs img elements                        *)

Range(f) == {f[i] : i \in DOMAIN f}

\* what the k-th kind of element holds: its text, or for a meta element its
\* content attribute
TextValues == << <<" ">>, <<"A">>, <<" ", "B", " ">> >>
TextualDate == <<"May", " ", "1", ",", " ", "2024">>
\* a date pattern whose numbers are no calendar date
NoDate == <<"45", "/", "45", "/", "2024">>
ContentValues == << <<>>, <<"A">>, <<"C", " ">>, TextualDate, NoDate >>
AuthorValues == TextValues \o << <<"Unknown">> >>
DateValues == << <<"yesterday">>, IsoDate,
                 <<"5", "/", "13", "/", "2024", " ", "by", " ", "staff">>,
                 TextualDate,
                 <<"posted", " ">> \o NoDate >>

\* the first element selected by sel, of kind k
ElemOf(sel, texts, k) ==
    IF selectorStartsWithMeta(sel)
    THEN IF ContentValues[k] = <<>> THEN Elem(sel, EmptyStr, <<>>)
         ELSE Elem(sel, EmptyStr, [content |-> ContentValues[k]])
    ELSE Elem(sel, texts[k], <<>>)

\* the subsets of 1..n with at most k members
RECURSIVE SubsetsUpTo(_, _)
SubsetsUpTo(n, k) ==
    IF n = 0 \/ k = 0 THEN {{}}
    ELSE SubsetsUpTo(n - 1, k) \cup {S \cup {n} : S \in SubsetsUpTo(n - 1, k - 1)}

\* a document in which the selectors sels[i], i in S, select an element of
\* kind kinds[i]
TextDoc(sels, texts, S, kinds, headings) ==
    [els |-> {ElemOf(sels[i], texts, kinds[i]) : i \in S},
     headings |-> headings, imgs |-> <<>>]

Headings == {<<>>, << <<" ">> >>, << <<"H">> >>, << <<" ">>, <<"H">> >>}

\* attribute sets of img elements
ImgAttrs ==
    { <<>>,
      [src |-> <<"/", "a.jpg">>],
      [src |-> <<"https", "://", "cdn.com", "/", "b.png", "?", "w=200">>],
      ("src" :> <<"data", ":", "image/png;base64,AAAA">>)
        @@ ("data-src" :> <<"img", "/", "c.JPEG">>),
      ("src" :> <<"/", "icon.svg">>)
        @@ ("data-srcset" :> <<" ", "/", "d.webp", " ", "1x", ",", " ", "/",
                               "e.gif", " ", "2x">>),
      ("src" :> <<"//", "[">>) @@ ("data-url" :> <<"/", "page.html">>),
      ("src" :> <<"//", "[">>) @@ ("data-original" :> <<"/", "a.jpg">>) }

ImgMatches(profile) ==
    {{}} \cup {{sel} : sel \in Range(SubSeq(profile.image, 1, 3))}

ImgPool(profile) ==
    {Img(m, a) : m \in ImgMatches(profile), a \in ImgAttrs}

\* the headings of the documents made for the author and the date: one
\* heading, which gives the article its title
Titled == << <<"H">> >>

\* whether doc is a document of the extraction for the profile
IsExtractDoc(doc, profile) ==
    \/ \E S \in SubsetsUpTo(Len(profile.title), MaxMatched) :
         \E kinds \in [S -> 1..Len(TextValues)], h \in Headings :
            doc = TextDoc(profile.title, TextValues, S, kinds, h)
    \/ \E S \in SubsetsUpTo(Len(profile.author), MaxMatched) \ {{}} :
         \E kinds \in [S -> 1..Len(AuthorValues)] :
            doc = TextDoc(profile.author, AuthorValues, S, kinds, Titled)
    \/ \E S \in SubsetsUpTo(Len(profile.date), MaxMatched) \ {{}} :
         \E kinds \in [S -> 1..Len(DateValues)] :
            doc = TextDoc(profile.date, DateValues, S, kinds, Titled)
    \/ \E i \in SeqsUpTo(ImgPool(profile), MaxImgs) \ {<<>>} :
            doc = [els |-> {}, headings |-> <<>>, imgs |-> i]

ExArticleUrl == <<"https", "://", "site.com", "/", "news", "/", "123">>
\* an article URL with the characters 'svg' in its path
SvgArticleUrl == <<"https", "://", "site.com", "/", "news", "/", "svgs", "/", "123">>

\* the URLs the article document may have been fetched from: relative image
\* sources are resolved against it
ExArticleUrls(doc) ==
    IF doc.imgs = <<>> THEN {ExArticleUrl} ELSE {ExArticleUrl, SvgArticleUrl}

\* the zones of the server: they matter to documents with a date element
ExZones(doc, profile) ==
    IF \E e \in doc.els : e.sel \in Range(profile.date) THEN TimeZones ELSE {0}

exSelectors == websiteSelectors("express")[exProfile]

InitExtract ==
    /\ request \in {r \in Requests : r.handler = "express" /\ r.url = Some(SiteUrl)}
    /\ pc = "Extraction"
    /\ response = None
    /\ upstream = None
    /\ listDoc = NoDoc
    /\ idx = 0
    /\ newsItems = <<>>
    /\ fetches = <<>>
    /\ lastArticle = "none"
    /\ failures = FALSE
    /\ exProfile \in {"default", "abs-cbn.com"}
    /\ IsExtractDoc(exDoc, websiteSelectors("express")[exProfile])
    /\ articleLinks \in {<<u>> : u \in ExArticleUrls(exDoc)}
    /\ exOut = None
    /\ exBody = NoBody
    /\ client = NoClient
    /\ tz \in ExZones(exDoc, websiteSelectors("express")[exProfile])
    /\ TwoIdle

\* lines 274-412 of the Express handler on exDoc: the fields extracted and
\* what `if (title) newsItems.push({...})` makes of them
ExtractFields ==
    /\ pc = "Extraction"
    /\ exOut = None
    /\ \E title \in {expressTitle(exDoc, exSelectors)},
          author \in {expressAuthor(exDoc, exSelectors)},
          date \in {expressDate(exDoc, exSelectors)},
          imageUrl \in {expressImage(exDoc, exSelectors, articleLinks[1])} :
          \E formattedDate \in {formattedDateOf(date, tz)} :
             exOut' = Some([ title    |-> title,
                             author   |-> author,
                             date     |-> date,
                             formattedDate |-> formattedDate,
                             imageUrl |-> imageUrl,
                             record   |-> expressPush(title, author, formattedDate,
                                                      imageUrl, hostname,
                                                      articleLinks[1]) ])
    /\ UNCHANGED <<requestVars, exProfile, exDoc, exBody, tz, client, twoVars>>

NextExtract == ExtractFields

SpecExtract == InitExtract /\ [][NextExtract]_vars

-----------------------------------------------------------------------------
(* Precedence among the selectors of a field *)

\* what the selector sels[i] contributes to a text field of doc: the trimmed
\* text of its first element, or the content attribute for a meta selector
\* of the author and date lists; None when it contributes nothing
titleYield(doc, sel) ==
    IF Trim(TextOf(First(doc, sel))) = EmptyStr THEN None
    ELSE Some(Trim(TextOf(First(doc, sel))))

Yielding(doc, sels, yield(_, _)) ==
    {i \in 1..Len(sels) : yield(doc, sels[i]) # None}

Max(S) == CHOOSE m \in S : \A n \in S : n <= m
Min(S) == CHOOSE m \in S : \A n \in S : m <= n

\* the field holds what the last yielding selector yields, when one yields
LastWins(value, doc, sels, yield(_, _)) ==
    Yielding(doc, sels, yield) # {} =>
        value = yield(doc, sels[Max(Yielding(doc, sels, yield))])[1]

\* C1: in the Express handler, when selectors of the title, author or date
\* list yield a non-empty value on the article document, the extracted field
\* is the value of the LAST yielding selector in list order.
C1_LastMatchWins ==
    exOut # None =>
        /\ LastWins(exOut[1].title, exDoc, exSelectors.title, titleYield)
        /\ LastWins(exOut[1].author, exDoc, exSelectors.author, metaOrText)
        /\ LastWins(exOut[1].date, exDoc, exSelectors.date, metaOrText)

\* two selectors of the list yield different values on the document
TwoYield(doc, sels, yield(_, _)) ==
    \E i, j \in Yielding(doc, sels, yield) :
        i < j /\ yield(doc, sels[i]) # yield(doc, sels[j])

\* extraction has run on a document where two title selectors yield different
\* texts, and on one where a meta selector and a text selector both yield
C1_Witness ==
    /\ exOut # None
    /\ \/ /\ TwoYield(exDoc, exSelectors.title, titleYield)
          /\ exOut[1].title =
               titleYield(exDoc, exSelectors.title[
                   Max(Yielding(exDoc, exSelectors.title, titleYield))])[1]
       \/ TwoYield(exDoc, exSelectors.author, metaOrText)
       \/ TwoYield(exDoc, exSelectors.date, metaOrText)

\* what the image selector sel contributes: the valid source of its first
\* element
imageYield(doc, sel) == selectorImage(FirstImg(doc.imgs, sel), articleLinks[1])

\* C2: image extraction is first-match-wins: when selectors of the image
\* list match elements with a valid source, imageUrl is the source of the
\* element of the EARLIEST such selector; later selectors never override it.
C2_ImageFirstMatchWins ==
    (exOut # None /\ Yielding(exDoc, exSelectors.image, imageYield) # {}) =>
        exOut[1].imageUrl =
            imageYield(exDoc, exSelectors.image[
                Min(Yielding(exDoc, exSelectors.image, imageYield))])[1]

-----------------------------------------------------------------------------
(* The request pipeline *)

\* the list-page fetch has ended in a response with the given status
ListStatusIs(status) ==
    /\ upstream # None
    /\ upstream[1].kind = "response"
    /\ upstream[1].status = status

\* the list-page fetch has ended in a response with status 200 that parsed
ListPageOk == ListStatusIs(200) /\ upstream[1].parses

\* the only fetch of the request is that of the list page
OnlyListFetched == fetches = << <<"list", request.url[1]>> >>

\* the URLs of the article fetches, in the order they were issued
RECURSIVE ArticleFetches(_)
ArticleFetches(fs) ==
    IF fs = <<>> THEN <<>>
    ELSE IF Head(fs)[1] = "article"
    THEN <<Head(fs)[2]>> \o ArticleFetches(Tail(fs))
    ELSE ArticleFetches(Tail(fs))

AllTitled(items) == \A i \in 1..Len(items) : items[i].title # EmptyStr

\* C3: every record of the result has a non-empty title; an article without
\* a title is not appended whatever its other fields hold, and dropping it
\* is no error of the request.
C3_TitledRecords ==
    /\ AllTitled(newsItems)
    /\ response # None => AllTitled(response[1].news)
    /\ Len(newsItems) <= idx
    /\ lastArticle = "untitled" =>
          /\ pc \in {"FetchingArticles", "Done"}
          /\ response # None => response[1].status \in {200, 404}

\* a request answered with records after its last article, without a title,
\* was dropped
C3_Witness ==
    /\ pc = "Done"
    /\ lastArticle = "untitled"
    /\ response[1].status = 200
    /\ Len(response[1].news) >= 1
    /\ Len(response[1].news) < idx

\* one iteration of the article loop: the next iteration follows, no response
\* is sent, the records so far stay
C4_Step ==
    (pc = "FetchingArticles" /\ fetches' # fetches) =>
        /\ pc' = "FetchingArticles"
        /\ response' = None
        /\ idx' = idx + 1
        /\ Len(newsItems') >= Len(newsItems)
        /\ SubSeq(newsItems', 1, Len(newsItems)) = newsItems

\* once the links are collected the request ends only after every candidate
\* link was fetched, with the records gathered or with the not-found response
C4_End ==
    /\ (pc = "Failed" \/ ~ListPageOk) => ArticleFetches(fetches) = <<>>
    /\ (ListPageOk /\ response # None /\ IsProfile(selectors)) =>
        /\ pc = "Done"
        /\ ArticleFetches(fetches) = articleLinks
        /\ response[1].status \in {200, 404}
        /\ response[1].status = 200 => response[1].news = newsItems

\* C4: a failure while processing one article (no response, a status other
\* than 200, an exception) never aborts the request: the remaining links are
\* still fetched, the records gathered are kept, and the failure is never
\* the response.
C4_FailureNeverAborts == [][C4_Step]_vars /\ []C4_End

\* an article failed, a later one was still fetched and made a record, and
\* the request was answered with the records
C4_Witness ==
    /\ pc = "Done"
    /\ failures
    /\ lastArticle = "pushed"
    /\ response[1].status = 200
    /\ Len(newsItems) < Len(articleLinks)

\* C5: in either handler a request whose list page returned 200 and whose
\* articles gave no titled record ends in the not-found response, status 404.
C5_NoArticlesFound ==
    (ListPageOk /\ pc \in {"Done", "Failed"} /\ Len(newsItems) = 0) =>
        response[1].status = 404

\* C6: a list page answered with 403 ends the request with status 403 and
\* the forbidden message; no other outcome of the list fetch gives that
\* response; no article is fetched.
C6_Blocked ==
    /\ ListStatusIs(403) =>
          /\ pc = "Failed"
          /\ response = Reply(403, "Access to this website is forbidden", <<>>)
          /\ OnlyListFetched
    /\ (upstream # None /\ ~ListStatusIs(403) /\ response # None) =>
          /\ response[1].message # "Access to this website is forbidden"
          /\ response[1].status # 403

C6_Witness ==
    /\ ListStatusIs(403)
    /\ response # None
    /\ response[1].status = 403

\* C7: a list page answered with a status c in [200,500) other than 200 and
\* 403 ends the request with status c, unparsed and without an article fetch;
\* only status 200 goes on to link discovery.
C7_UpstreamStatus ==
    /\ \A c \in (200..499) \ {200, 403} :
          ListStatusIs(c) =>
              /\ pc = "Failed"
              /\ response[1].status = c
              /\ response[1].message = "Failed to fetch the website"
              /\ OnlyListFetched
              /\ articleLinks = <<>>
    /\ pc \in {"DiscoveringLinks", "FetchingArticles", "Done"} => ListStatusIs(200)

C7_Witness ==
    /\ ListStatusIs(404)
    /\ response # None
    /\ response[1].status = 404
    /\ OnlyListFetched

\* the list-page fetch of an Express request has ended without a response
\* (a connection failure or a timeout)
NoListResponse == upstream # None /\ upstream[1].kind = "noResponse"

\* the list-page fetch has ended in a response with a status of 500 or more
ListStatusFrom500 ==
    upstream # None /\ upstream[1].kind = "response" /\ upstream[1].status >= 500

\* C8, as stated: in the Express handler a list page answered with a status
\* of 500 or more gets the response of a connection failure, the generic
\* status 500, and the upstream status is not the response status.
C8_Generic500 ==
    (request.handler = "express" /\ ListStatusFrom500) =>
        /\ response[1].status = 500
        /\ response[1].message = "No response received from the website"

\* C8, amended: in the Express handler a list page answered with a status of
\* 500 or more ends the request with that very status and the message naming
\* the upstream status; only a fetch without any response ends in the
\* generic status 500.  Neither fetches an article.
C8_UpstreamErrorStatus ==
    request.handler = "express" =>
        /\ ListStatusFrom500 =>
              /\ pc = "Failed"
              /\ response[1].status = upstream[1].status
              /\ response[1].message = "Server responded with status"
              /\ OnlyListFetched
        /\ NoListResponse =>
              /\ pc = "Failed"
              /\ response[1].status = 500
              /\ response[1].message = "No response received from the website"
              /\ OnlyListFetched

C8_Witness ==
    /\ request.handler = "express"
    /\ ListStatusIs(503)
    /\ response # None
    /\ response[1].status = 503

\* the request carries no URL, an empty one, or one that is no absolute URL
UrlUnusable ==
    \/ request.body # "object"
    \/ ~Truthy(request.url)
    \/ ParseAbsolute(request.url[1]) = None

\* C9: a POST request whose URL is missing, empty or no well-formed absolute
\* URL ends at once with status 400, and no fetch is issued for it.
C9_InvalidUrl ==
    (request.method = "POST" /\ UrlUnusable) =>
        /\ fetches = <<>>
        /\ pc \in {"Validating", "Failed"}
        /\ pc = "Failed" => response[1].status = 400

\* the URL an anchor contributes: its href, resolved, when it looks like an
\* article
CandidatesOf(a, url) ==
    IF ~Truthy(a.href) \/ absoluteUrlOf(a.href[1], url) = None THEN {}
    ELSE IF looksLikeArticle(absoluteUrlOf(a.href[1], url)[1])
    THEN {absoluteUrlOf(a.href[1], url)[1]}
    ELSE {}

\* the candidates among the anchors inside an element that one of the
\* article selectors matches, and among all anchors of the document
ContainerCandidates ==
    UNION {CandidatesOf(listDoc.anchors[i], request.url[1]) :
             i \in {j \in 1..Len(listDoc.anchors) :
                      listDoc.anchors[j].within \cap Range(selectors.article) # {}}}

AllCandidates ==
    UNION {CandidatesOf(listDoc.anchors[i], request.url[1]) :
             i \in 1..Len(listDoc.anchors)}

\* C10: the candidate links are those of the container pass when it found
\* any (anchors outside the containers are not added), and otherwise those
\* of every anchor of the document whose resolved URL looks like an article.
C10_GeneralScanIffEmpty ==
    pc \in {"FetchingArticles", "Done"} =>
        Range(articleLinks) = IF ContainerCandidates # {} THEN ContainerCandidates
                              ELSE AllCandidates

\* a list page with a candidate inside a container and another outside
C10_Witness ==
    /\ pc = "FetchingArticles"
    /\ ContainerCandidates # {}
    /\ AllCandidates # ContainerCandidates
    /\ Range(articleLinks) = ContainerCandidates

-----------------------------------------------------------------------------
(* Candidate links *)

NoDuplicates(s) == \A i, j \in 1..Len(s) : i # j => s[i] # s[j]

\* the url fields of the records, in order
UrlsOf(items) == [i \in 1..Len(items) |-> items[i].url]

\* C11: within one request each distinct absolute URL is fetched as an
\* article at most once, however many anchors and containers it appears in,
\* and no two records hold the same url.
C11_FetchedOnce ==
    /\ NoDuplicates(articleLinks)
    /\ NoDuplicates(ArticleFetches(fetches))
    /\ NoDuplicates(UrlsOf(newsItems))

\* a list page whose two anchors, one of them inside two containers, hold the
\* same link: it was fetched once and made one record
C11_Witness ==
    /\ pc = "Done"
    /\ Len(listDoc.anchors) = 2
    /\ CandidatesOf(listDoc.anchors[1], request.url[1]) # {}
    /\ CandidatesOf(listDoc.anchors[1], request.url[1])
         = CandidatesOf(listDoc.anchors[2], request.url[1])
    /\ \E i \in 1..2 : Cardinality(listDoc.anchors[i].within
                                     \cap Range(selectors.article)) >= 2
    /\ Len(ArticleFetches(fetches)) = 1
    /\ Len(newsItems) = 1

-----------------------------------------------------------------------------
(* Long list pages: the article loop on a list page of up to MaxLinks      *)
(* distinct article links, each article answering with a full page or not  *)
(* at all                                                                  *)

\* a list page of n anchors outside any container, /news/1 ... /news/n
ManyLinksDoc(n) ==
    [anchors |-> [k \in 1..n |->
                    [href |-> Some(<<"/", "news", "/", ToString(k)>>),
                     within |-> {}]]]

CapOutcomes ==
    {o \in ArticleOutcomes :
        \/ o.kind = "noResponse"
        \/ o.status = 200 /\ o.parses /\ o.doc = DocFull}

\* the list page has been fetched with status 200 and parsed
InitCap ==
    /\ request \in {r \in Requests : r.body = "object" /\ r.url = Some(SiteUrl)}
    /\ pc = "DiscoveringLinks"
    /\ response = None
    /\ upstream = Some([kind |-> "response", status |-> 200, parses |-> TRUE])
    /\ listDoc \in {ManyLinksDoc(n) : n \in 0..MaxLinks}
    /\ articleLinks = <<>>
    /\ idx = 0
    /\ newsItems = <<>>
    /\ fetches = << <<"list", SiteUrl>> >>
    /\ lastArticle = "none"
    /\ failures = FALSE
    /\ exProfile = "default"
    /\ exDoc = DocEmpty
    /\ exOut = None
    /\ exBody = NoBody
    /\ client = NoClient
    /\ tz = 0
    /\ TwoIdle

CapArticle == articleStep(CapOutcomes)

NextCap ==
    \/ DiscoverLinks
    \/ CapArticle
    \/ Finish

SpecCap == InitCap /\ [][NextCap]_vars

\* C12: the Express handler performs at most 10 article fetches for a list
\* page, however many candidate links the page holds.
C12_AtMostTenFetches ==
    request.handler = "express" => Len(ArticleFetches(fetches)) <= 10

-----------------------------------------------------------------------------
(* Phases of a request *)

Terminated == pc \in {"Done", "Failed"}

\* the phase that follows a phase when the request goes on
NextPhase ==
    [p \in {"Validating", "FetchingList", "DiscoveringLinks", "FetchingArticles"} |->
        CASE p = "Validating" -> "FetchingList"
          [] p = "FetchingList" -> "DiscoveringLinks"
          [] p = "DiscoveringLinks" -> "FetchingArticles"
          [] p = "FetchingArticles" -> "Done"]

\* how far the request has come: its phase, and within the article loop the
\* articles done
PhaseRank ==
    [p \in {"Validating", "FetchingList", "DiscoveringLinks", "FetchingArticles",
            "Done", "Failed"} |->
        CASE p = "Validating" -> 1
          [] p = "FetchingList" -> 2
          [] p = "DiscoveringLinks" -> 3
          [] p = "FetchingArticles" -> 4
          [] OTHER -> 5]

\* every step goes forward: to the next phase, to failure, or to the next
\* article of the loop; after the response nothing changes: no second
\* response, no further fetch
C13_Step ==
    /\ ~Terminated
    /\ \/ pc' \in {NextPhase[pc], "Failed"} /\ idx' = idx
       \/ pc' = pc /\ pc = "FetchingArticles" /\ idx' = idx + 1
    /\ PhaseRank[pc'] >= PhaseRank[pc]
    /\ response' # None <=> pc' \in {"Done", "Failed"}
    /\ Len(fetches') >= Len(fetches)

\* the response is sent exactly when the request ends; articles are fetched
\* only after the list page returned 200, the list page first; the article
\* loop is bounded by the links found
C13_Inv ==
    /\ response # None <=> Terminated
    /\ ArticleFetches(fetches) # <<>> =>
          /\ ListStatusIs(200)
          /\ Head(fetches) = <<"list", request.url[1]>>
    /\ pc = "Validating" => fetches = <<>>
    /\ pc = "FetchingList" => (OnlyListFetched /\ upstream = None)
    /\ pc = "DiscoveringLinks" => (OnlyListFetched /\ ListStatusIs(200))
    /\ idx <= Len(articleLinks)
    /\ Len(ArticleFetches(fetches)) <= Len(articleLinks)

\* C13: a request moves through Validating, FetchingList, DiscoveringLinks
\* and FetchingArticles in that order, never back, and ends in one terminal
\* outcome: no article fetch before the list page returned 200, exactly one
\* response, no fetch after it.
C13_PhaseOrder == [][C13_Step]_vars /\ []C13_Inv

\* a request that went through every phase, fetched two articles and ended
C13_Witness ==
    /\ pc = "Done"
    /\ response # None
    /\ Len(fetches) = 3
    /\ idx = 2

\* the hostname of an absolute URL
HostOf(u) == hostnameOf(ParseAbsolute(u)[1])

\* C14: every link fetched as an article has the hostname of the submitted
\* list-page URL, so that the source of each record is the hostname of its
\* url.
C14_SameHost ==
    /\ \A i \in 1..Len(ArticleFetches(fetches)) :
          HostOf(ArticleFetches(fetches)[i]) = hostname
    /\ \A i \in 1..Len(newsItems) :
          request.handler = "express" =>
              newsItems[i].source = HostOf(newsItems[i].url)

-----------------------------------------------------------------------------
(* Two requests in flight.  Every `await` of a handler is a point where the *)
(* other request may run; between two awaits a handler runs alone.          *)

Calls == {1, 2}

\* the link set and the result list declared at module level: one object
\* for every invocation
ownerShared(r) == 1

\* the link set and the result list are created inside the handler, once per
\* invocation: each invocation uses objects of its own
ownerOf(r) == r

TwoRequests ==
    {r \in Requests : r.body = "object" /\ r.url \in {None, Some(SiteUrl)}}

\* list pages with two links and with one
TwoLinksDoc ==
    [anchors |-> << [href |-> Some(HrefNews), within |-> {}],
                    [href |-> Some(HrefDated), within |-> {}] >>]
OneLinkDoc == [anchors |-> << [href |-> Some(HrefNews), within |-> {"article"}] >>]

ArticleOk(doc) == [kind |-> "response", status |-> 200, doc |-> doc, parses |-> TRUE]
ArticleLost == [kind |-> "noResponse", status |-> 0, doc |-> DocEmpty, parses |-> FALSE]

\* what the upstream answers to one request: to the list-page fetch and to
\* the article fetches in turn
Scripts ==
    [list : {o \in ListOutcomes :
                \/ o.status = 403
                \/ o.status = 200 /\ o.parses /\ o.doc \in {TwoLinksDoc, OneLinkDoc}},
     articles : { <<ArticleOk(DocFull), ArticleOk(DocFull)>>,
                  <<ArticleLost, ArticleOk(DocFull)>>,
                  <<ArticleOk(DocFull), ArticleOk(DocUntitled)>>,
                  <<ArticleOk(DocUntitled), ArticleLost>> }]

NewCall(req) == [request |-> req, pc |-> "Validating", response |-> None, idx |-> 0]
NewStore == [articleLinks |-> <<>>, newsItems |-> <<>>]

InitTwo ==
    /\ request \in {r \in Requests : r.handler = "express" /\ r.url = Some(SiteUrl)}
    /\ pc = "Concurrent"
    /\ response = None
    /\ upstream = None
    /\ listDoc = NoDoc
    /\ articleLinks = <<>>
    /\ idx = 0
    /\ newsItems = <<>>
    /\ fetches = <<>>
    /\ lastArticle = "none"
    /\ failures = FALSE
    /\ exProfile = "default"
    /\ exDoc = DocEmpty
    /\ exOut = None
    /\ exBody = NoBody
    /\ client = NoClient
    /\ tz = 0
    /\ script \in [Calls -> Scripts]
    /\ call \in [Calls -> {NewCall(req) : req \in TwoRequests}]
    /\ store = [r \in Calls |-> NewStore]
    /\ registry = Registry

hostOfCall(r) == hostnameOf(ParseAbsolute(call[r].request.url[1])[1])

\* websiteSelectors[hostname] || websiteSelectors.default, read from the table
selectorsOfCall(r) == profileIn(registry[call[r].request.handler], hostOfCall(r))

\* the request is validated and, when it passes, the list page is requested
TwoStart(r) ==
    /\ call[r].pc = "Validating"
    /\ call' = IF validation(call[r].request) # None
               THEN [call EXCEPT ![r].response = validation(call[r].request),
                                 ![r].pc = "Failed"]
               ELSE [call EXCEPT ![r].pc = "FetchingList"]
    /\ UNCHANGED <<requestVars, extractVars, tz, client, script, store, registry>>

\* the list page has come: status handling, then link discovery up to the
\* first article fetch
TwoList(r) ==
    /\ call[r].pc = "FetchingList"
    /\ \E failed \in {listStatusHandling(call[r].request.handler, script[r].list)},
          found \in {discovery(script[r].list.doc, selectorsOfCall(r),
                               call[r].request.url[1])} :
        IF failed # None
        THEN /\ call' = [call EXCEPT ![r].response = failed, ![r].pc = "Failed"]
             /\ store' = store
        ELSE IF found.threw
        THEN /\ call' = [call EXCEPT ![r].response =
                                         outerCatch(call[r].request.handler, ErrOther),
                                     ![r].pc = "Failed"]
             /\ store' = store
        ELSE /\ call' = [call EXCEPT ![r].pc = "FetchingArticles"]
             /\ store' = [store EXCEPT ![ownerOf(r)].articleLinks =
                            linksToProcess(call[r].request.handler, found.links)]
    /\ UNCHANGED <<requestVars, extractVars, tz, client, script, registry>>

\* an article has come: extraction and push, up to the next article fetch
TwoArticle(r) ==
    /\ call[r].pc = "FetchingArticles"
    /\ call[r].idx < Len(store[ownerOf(r)].articleLinks)
    /\ call[r].idx < Len(script[r].articles)
    /\ \E end \in {articleEnd(call[r].request.handler,
                              script[r].articles[call[r].idx + 1],
                              selectorsOfCall(r), hostOfCall(r),
                              store[ownerOf(r)].articleLinks[call[r].idx + 1])} :
        store' = IF end.how = "pushed"
                 THEN [store EXCEPT ![ownerOf(r)].newsItems = Append(@, end.item)]
                 ELSE store
    /\ call' = [call EXCEPT ![r].idx = @ + 1]
    /\ UNCHANGED <<requestVars, extractVars, tz, client, script, registry>>

\* the loop is over: the response is sent
TwoFinish(r) ==
    /\ call[r].pc = "FetchingArticles"
    /\ call[r].idx >= Len(store[ownerOf(r)].articleLinks)
    /\ call' = [call EXCEPT ![r].response =
                                finalResponse(call[r].request.handler,
                                              store[ownerOf(r)].newsItems),
                            ![r].pc = "Done"]
    /\ UNCHANGED <<requestVars, extractVars, tz, client, script, store, registry>>

NextTwo ==
    \E r \in Calls :
        \/ TwoStart(r)
        \/ TwoList(r)
        \/ TwoArticle(r)
        \/ TwoFinish(r)

SpecTwo == InitTwo /\ [][NextTwo]_vars

\* What a request running alone produces from its script: the candidate
\* links, the records after k articles, and the response.
SoloLinks(req, sc) ==
    linksToProcess(req.handler,
                   discoverLinks(sc.list.doc,
                                 selectorsFor(req.handler,
                                              hostnameOf(ParseAbsolute(req.url[1])[1])),
                                 req.url[1]))

RECURSIVE SoloItems(_, _, _)
SoloItems(req, sc, k) ==
    IF k = 0 THEN <<>>
    ELSE LET end == articleEnd(req.handler, sc.articles[k],
                               selectorsFor(req.handler,
                                            hostnameOf(ParseAbsolute(req.url[1])[1])),
                               hostnameOf(ParseAbsolute(req.url[1])[1]),
                               SoloLinks(req, sc)[k])
         IN  IF end.how = "pushed" THEN Append(SoloItems(req, sc, k - 1), end.item)
             ELSE SoloItems(req, sc, k - 1)

SoloFailure(req, sc) ==
    IF validation(req) # None THEN validation(req)
    ELSE listStatusHandling(req.handler, sc.list)

AsAlone(r) ==
    /\ call[r].pc \in {"Validating", "FetchingList"} =>
          /\ call[r].response = None
          /\ store[r] = NewStore
    /\ call[r].pc = "Failed" =>
          /\ call[r].response # None
          /\ call[r].response = SoloFailure(call[r].request, script[r])
          /\ store[r] = NewStore
    /\ call[r].pc \in {"FetchingArticles", "Done"} =>
          /\ SoloFailure(call[r].request, script[r]) = None
          /\ store[r].articleLinks = SoloLinks(call[r].request, script[r])
          /\ store[r].newsItems = SoloItems(call[r].request, script[r], call[r].idx)
    /\ call[r].pc = "FetchingArticles" => call[r].response = None
    /\ call[r].pc = "Done" =>
          /\ call[r].idx = Len(SoloLinks(call[r].request, script[r]))
          /\ call[r].response =
               finalResponse(call[r].request.handler,
                             SoloItems(call[r].request, script[r], call[r].idx))

\* C15: with two requests in flight, interleaved at every await, each
\* request's candidate links, result list and response are those it produces
\* alone from the same upstream responses, and the selector tables are never
\* modified.
C15_NoInterference ==
    /\ \A r \in Calls : AsAlone(r)
    /\ registry = Registry

\* both requests are in the middle of their article loops, each with a record
\* of its own, on different list pages
C15_Witness ==
    /\ \A r \in Calls : /\ call[r].pc = "FetchingArticles"
                        /\ call[r].idx = 1
                        /\ Len(store[r].newsItems) = 1
    /\ script[1].list.doc # script[2].list.doc
    /\ call[1].request.handler # call[2].request.handler

-----------------------------------------------------------------------------
(* Profile lookup *)

\* the request carries a URL that parses
UrlParses ==
    /\ request.body = "object"
    /\ Truthy(request.url)
    /\ ParseAbsolute(request.url[1]) # None

\* C16: for every hostname that is no key of the selector table, names of
\* built-in object properties included, the profile used is the default
\* profile with its five selector lists.
C16_DefaultForUnregistered ==
    (UrlParses /\ hostname \notin {"abs-cbn.com", "default"}) =>
        /\ selectors = websiteSelectors(request.handler)["default"]
        /\ DOMAIN selectors = {"article", "title", "author", "date", "image"}

-----------------------------------------------------------------------------
(* Resolution and classification of links *)

\* the standard resolution of an href against a base: an absolute URL stays,
\* anything else is resolved against the base (None: no URL)
StandardResolution(h, b) ==
    IF ParseAbsolute(h) # None THEN Some(h) ELSE ResolveUrl(h, b)

\* C17: every candidate is the standard resolution of a non-empty href of
\* the list page against the list-page URL (an absolute href unchanged), so
\* every candidate is a well-formed absolute URL, also when a relative href
\* begins with 'http'.
C17_StandardResolution ==
    pc \in {"FetchingArticles", "Done"} =>
        \A i \in 1..Len(articleLinks) :
            /\ ParseAbsolute(articleLinks[i]) # None
            /\ \E k \in 1..Len(listDoc.anchors) :
                  /\ Truthy(listDoc.anchors[k].href)
                  /\ Some(articleLinks[i])
                       = StandardResolution(listDoc.anchors[k].href[1], request.url[1])

\* the path of an absolute URL: what follows the host, up to the query or
\* the fragment
UrlPath(u) == PathPart(SubSeq(u, 4, Len(u)))

\* the article test applied to the path alone
PathLooksLikeArticle(u) ==
    \/ Includes(UrlPath(u), <<"/", "news", "/">>)
    \/ Includes(UrlPath(u), <<"/", "article", "/">>)
    \/ Includes(UrlPath(u), <<"/", "story", "/">>)
    \/ matchesDatePath(UrlPath(u))

\* C18: a resolved link is a candidate only if its PATH contains '/news/',
\* '/article/', '/story/' or a YYYY/MM/DD segment; the patterns in the query
\* string or the fragment do not make it one.
C18_PathOnly ==
    pc \in {"FetchingArticles", "Done"} =>
        \A i \in 1..Len(articleLinks) :
            ParseAbsolute(articleLinks[i]) # None =>
                PathLooksLikeArticle(articleLinks[i])

-----------------------------------------------------------------------------
(* The image of a record *)

\* C19: the image URL extracted by the Express handler is empty (null in the
\* record) or an absolute URL that is no data URI, holds 'svg' nowhere (also
\* not in the part that comes from the article's URL) and ends in an image
\* extension, optionally followed by a query string.
C19_ImageUrlValid ==
    (exOut # None /\ exOut[1].imageUrl # EmptyStr) =>
        /\ ParseAbsolute(exOut[1].imageUrl) # None
        /\ ~StartsWithData(exOut[1].imageUrl)
        /\ ~IncludesSvg(exOut[1].imageUrl)
        /\ matchesImageExt(exOut[1].imageUrl)

-----------------------------------------------------------------------------
(* Date normalization *)

\* C20: a raw date that names a calendar day without a time zone is
\* normalized to a timestamp whose date part is that same day, in every zone
\* of the server; a raw date that neither parses nor holds a date pattern is
\* normalized to the empty string.
C20_CalendarDayPreserved ==
    exOut # None =>
        /\ DateFields(exOut[1].date) # None =>
            /\ exOut[1].formattedDate # EmptyStr
            /\ SubSeq(exOut[1].formattedDate, 1, 5) =
                 << DateFields(exOut[1].date)[1][1], "-",
                    DateFields(exOut[1].date)[1][2], "-",
                    DateFields(exOut[1].date)[1][3] >>
        /\ (DateFields(exOut[1].date) = None /\ dateMatch(exOut[1].date) = None) =>
            exOut[1].formattedDate = EmptyStr

-----------------------------------------------------------------------------
(* The heading fallback of the title *)

\* the trimmed text of the first heading of doc whose trimmed text is not
\* empty, '' when there is none
FirstNonEmptyHeading(doc) ==
    IF \A i \in 1..Len(doc.headings) : Trim(doc.headings[i]) = EmptyStr
    THEN EmptyStr
    ELSE Trim(doc.headings[Min({i \in 1..Len(doc.headings) :
                                  Trim(doc.headings[i]) # EmptyStr})])

\* C21: when no selector of the title list yields a non-empty text, the
\* title is the text of the first heading whose trimmed text is not empty,
\* also when an empty heading precedes it.
C21_FirstNonEmptyHeading ==
    (exOut # None /\ Yielding(exDoc, exSelectors.title, titleYield) = {}) =>
        exOut[1].title = FirstNonEmptyHeading(exDoc)

-----------------------------------------------------------------------------
(* The author of a record *)

\* the record the extraction pushed, when it pushed one
Pushed == exOut # None /\ exOut[1].record.how = "pushed"

\* what an author selector contributes: the content attribute of its first
\* element for a selector beginning with 'meta', the trimmed text otherwise
authorValue(doc, sel) ==
    IF First(doc, sel) = None THEN None
    ELSE IF selectorStartsWithMeta(sel)
    THEN IF Truthy(First(doc, sel)[1].attrs["content"])
         THEN First(doc, sel)[1].attrs["content"] ELSE None
    ELSE IF Trim(First(doc, sel)[1].text) # EmptyStr
    THEN Some(Trim(First(doc, sel)[1].text)) ELSE None

\* C22 (as stated): every record has a non-empty author, and the author is
\* 'Unknown' exactly when no selector of the author list yields a value.
C22_UnknownExactlyWhenNone ==
    Pushed =>
        /\ exOut[1].record.item.author # EmptyStr
        /\ exOut[1].record.item.author = <<"Unknown">>
             <=> Yielding(exDoc, exSelectors.author, authorValue) = {}

\* C22: every record has a non-empty author: 'Unknown' when no selector of
\* the author list yields a value, and otherwise the value of the last
\* yielding selector, the content attribute for a meta selector and the
\* trimmed text for any other.
C22_AuthorOfRecord ==
    Pushed =>
        /\ exOut[1].record.item.author # EmptyStr
        /\ Yielding(exDoc, exSelectors.author, authorValue) = {} =>
             exOut[1].record.item.author = <<"Unknown">>
        /\ LastWins(exOut[1].record.item.author, exDoc, exSelectors.author,
                    authorValue)

\* a record whose author is the content attribute of a meta element, on a
\* document where a text selector yields too
C22_Witness ==
    /\ Pushed
    /\ TwoYield(exDoc, exSelectors.author, authorValue)
    /\ selectorStartsWithMeta(
         exSelectors.author[Max(Yielding(exDoc, exSelectors.author, authorValue))])
    /\ exOut[1].record.item.author # <<"Unknown">>

-----------------------------------------------------------------------------
(* Upstream servers that never answer *)

\* a fetch that no answer ever comes to
SilentList == [kind |-> "silent", status |-> 0, doc |-> NoDoc, parses |-> FALSE]
SilentArticle == [kind |-> "silent", status |-> 0, doc |-> DocEmpty, parses |-> FALSE]

SilentListOutcomes ==
    {SilentList}
    \cup {o \in ListOutcomes :
            \/ o.status = 403
            \/ o.status = 200 /\ o.parses /\ o.doc \in {TwoLinksDoc, OneLinkDoc}}

SilentArticleOutcomes ==
    {SilentArticle, ArticleOk(DocFull), ArticleOk(DocUntitled), ArticleLost}

InitSilent ==
    /\ request \in {r \in Requests : r.body = "object"
                                     /\ r.url \in {Some(SiteUrl), Some(AbsCbnUrl)}}
    /\ pc = "Validating"
    /\ response = None
    /\ upstream = None
    /\ listDoc = NoDoc
    /\ articleLinks = <<>>
    /\ idx = 0
    /\ newsItems = <<>>
    /\ fetches = <<>>
    /\ lastArticle = "none"
    /\ failures = FALSE
    /\ exProfile = "default"
    /\ exDoc = DocEmpty
    /\ exOut = None
    /\ exBody = NoBody
    /\ client = NoClient
    /\ tz = 0
    /\ TwoIdle

SilentListFailed == listFails(SilentListOutcomes)
SilentListLoaded == listLoads(SilentListOutcomes)
SilentArticleStep == articleStep(SilentArticleOutcomes)

NextSilent ==
    \/ FetchList
    \/ SilentListFailed
    \/ SilentListLoaded
    \/ DiscoverLinks
    \/ SilentArticleStep
    \/ Finish

SpecSilent == InitSilent /\ [][NextSilent]_vars

\* C23: every fetch carries a timeout, so no request is left waiting for
\* ever for an upstream server that never answers: a silent server costs
\* the list page its request and an article only a skip.
C23_NoFetchWaitsForEver == lastArticle # "pending"

-----------------------------------------------------------------------------
(* The date of a record *)

\* the calendar day a raw date normalizes to: the day the whole string
\* names, else the day the first date pattern inside it names; None when
\* there is neither
NormalDay(raw) ==
    IF raw = EmptyStr THEN None
    ELSE IF DateFields(raw) # None THEN DateFields(raw)
    ELSE IF dateMatch(raw) = None THEN None
    ELSE DateFields(dateMatch(raw)[1])

\* a canonical ISO-8601 timestamp: YYYY-MM-DDTHH:mm:ss.sssZ, or the time of
\* extraction
IsTimestamp(d) ==
    \/ d = NowISO
    \/ /\ Len(d) = 6
       /\ d[1] \in {"2023", "2024"} /\ d[2] = "-" /\ d[4] = "-"
       /\ d[3] \in {"01", "04", "05", "12"}
       /\ d[5] \in {"01", "04", "05", "12", "13", "30", "31"}
       /\ d[6] \in {"T00:00:00.000Z", "T05:00:00.000Z", "T16:00:00.000Z"}

\* C24: every record of the Express handler has a date that is a canonical
\* ISO-8601 timestamp: the normalized raw date when the raw date normalizes,
\* the time of extraction when it is empty, unparseable or holds a date
\* pattern that is no valid date; the date is never empty, and whatever the
\* raw date is a titled article gets its record.
C24_DateOfRecord ==
    exOut # None =>
        /\ exOut[1].title # EmptyStr => Pushed
        /\ Pushed =>
            /\ exOut[1].record.item.date # EmptyStr
            /\ IsTimestamp(exOut[1].record.item.date)
            /\ NormalDay(exOut[1].date) = None =>
                 exOut[1].record.item.date = NowISO
            /\ NormalDay(exOut[1].date) # None =>
                 /\ exOut[1].record.item.date # NowISO
                 /\ exOut[1].record.item.date = exOut[1].formattedDate

\* a record whose raw date holds a date pattern that is no valid date, and
\* whose date is the time of extraction
C24_Witness ==
    /\ Pushed
    /\ dateMatch(exOut[1].date) # None
    /\ NormalDay(exOut[1].date) = None
    /\ exOut[1].record.item.date = NowISO

-----------------------------------------------------------------------------
(* The source of one image element *)

\* the attributes a source is looked for in, in priority order
CandidateAttrs ==
    <<"src", "data-src", "data-lazy-src", "data-original", "data-url", "data-srcset">>

\* the i-th candidate source of an element: the attribute value, for
\* data-srcset its first URL token
Candidate(attrs, i) ==
    IF CandidateAttrs[i] = "data-srcset" THEN firstSrcsetUrl(attrs["data-srcset"])
    ELSE attrs[CandidateAttrs[i]]

\* the absolute URL of a candidate
Resolved(c, base) == IF StartsWithHttp(c) THEN Some(c) ELSE ResolveUrl(c, base)

\* a candidate that is non-empty, no data URI, free of 'svg', resolvable
\* and image-shaped
ValidCandidate(c, base) ==
    /\ c # None
    /\ c[1] # EmptyStr
    /\ ~StartsWithData(c[1])
    /\ ~IncludesSvg(c[1])
    /\ Resolved(c[1], base) # None
    /\ matchesImageExt(Resolved(c[1], base)[1])

ValidCandidates(attrs, base) ==
    {i \in 1..Len(CandidateAttrs) : ValidCandidate(Candidate(attrs, i), base)}

\* the source taken from an element: its first valid candidate, resolved;
\* '' when it has none
SourceOf(attrs, base) ==
    IF ValidCandidates(attrs, base) = {} THEN EmptyStr
    ELSE Resolved(Candidate(attrs, Min(ValidCandidates(attrs, base)))[1], base)[1]

\* C25: the source taken from one image element is its first candidate, in
\* the order src, data-src, data-lazy-src, data-original, data-url, first
\* URL of data-srcset, that is non-empty, no data URI, free of 'svg',
\* resolvable and image-shaped, whatever the candidates before it are.
C25_FirstValidCandidate ==
    (exOut # None /\ Len(exDoc.imgs) = 1) =>
        exOut[1].imageUrl = SourceOf(exDoc.imgs[1].attrs, articleLinks[1])

\* an element whose first candidate is invalid or unresolvable and whose
\* source is a later candidate
C25_Witness ==
    /\ exOut # None
    /\ Len(exDoc.imgs) = 1
    /\ Truthy(exDoc.imgs[1].attrs["src"])
    /\ ValidCandidates(exDoc.imgs[1].attrs, articleLinks[1]) # {}
    /\ Min(ValidCandidates(exDoc.imgs[1].attrs, articleLinks[1])) > 1
    /\ exOut[1].imageUrl # EmptyStr

-----------------------------------------------------------------------------
(* The whole-document image fallback *)

\* the img elements of doc that have a valid candidate source
WithSource(doc, base) ==
    {i \in 1..Len(doc.imgs) : ValidCandidates(doc.imgs[i].attrs, base) # {}}

\* the selector-driven pass produced an image
SelectorPassFound == Yielding(exDoc, exSelectors.image, imageYield) # {}

\* C26: the scan of every img element runs exactly when the selector-driven
\* pass produced no image; it returns the source of the first img element,
\* in document order, that has a valid one; so the image is empty only when
\* no img element of the document has a valid candidate source.
C26_FallbackScan ==
    exOut # None =>
        /\ SelectorPassFound =>
             exOut[1].imageUrl =
                 imageYield(exDoc, exSelectors.image[
                     Max(Yielding(exDoc, exSelectors.image, imageYield))])[1]
        /\ (~SelectorPassFound /\ WithSource(exDoc, articleLinks[1]) # {}) =>
             exOut[1].imageUrl =
                 SourceOf(exDoc.imgs[Min(WithSource(exDoc, articleLinks[1]))].attrs,
                          articleLinks[1])
        /\ exOut[1].imageUrl = EmptyStr <=> WithSource(exDoc, articleLinks[1]) = {}

\* the selector-driven pass found nothing, the first img element has no valid
\* source and the scan took the source of the second
C26_Witness ==
    /\ exOut # None
    /\ ~SelectorPassFound
    /\ WithSource(exDoc, articleLinks[1]) = {2}
    /\ exOut[1].imageUrl # EmptyStr

-----------------------------------------------------------------------------
(* The cap of the serverless handler *)

\* the link of the k-th anchor of a list page ManyLinksDoc(n) of site.com
LinkOf(k) == <<"https", "://", "site.com", "/", "news", "/", ToString(k)>>

\* the first min(n, 10) links of the n the list page holds, in discovery order
FirstTen(n) == [k \in 1..(IF n < 10 THEN n ELSE 10) |-> LinkOf(k)]

IsPrefix(s, t) == Len(s) <= Len(t) /\ s = SubSeq(t, 1, Len(s))

\* the places of the urls of items within links go upwards
InOrderOf(items, links) ==
    \A i, j \in 1..Len(items) :
        i < j => \E a, b \in 1..Len(links) :
                    a < b /\ links[a] = items[i].url /\ links[b] = items[j].url

\* C27: with n candidate links the serverless handler fetches the first
\* min(n, 10) of them, in discovery order, and no other; its result holds at
\* most 10 records, in that order.
C27_FirstTenFetched ==
    request.handler = "serverless" =>
        /\ IsPrefix(ArticleFetches(fetches), FirstTen(Len(listDoc.anchors)))
        /\ Len(newsItems) <= 10
        /\ InOrderOf(newsItems, FirstTen(Len(listDoc.anchors)))
        /\ pc = "Done" =>
            /\ ArticleFetches(fetches) = FirstTen(Len(listDoc.anchors))
            /\ response[1].news = newsItems

\* a list page with more than 10 links: 10 were fetched and the request is
\* answered with the records of those that made one
C27_Witness ==
    /\ request.handler = "serverless"
    /\ pc = "Done"
    /\ Len(listDoc.anchors) > 10
    /\ Len(ArticleFetches(fetches)) = 10
    /\ Len(newsItems) >= 2
    /\ failures

-----------------------------------------------------------------------------
(* The variant of /api/scrape that also extracts the text of the article.  *)
(* Its selector tables are those of the Express handler.  exBody records    *)
(* whether a content selector matches a body container, the container's     *)
(* text, which img elements of the document lie inside a descendant that    *)
(* the extraction strips (script, style, iframe, .advertisement, .ad,       *)
(* .social-share, .related-articles), and the paragraphs of the page.       *)

\* imgs without the elements at the places in drop, from place i on
RECURSIVE dropAt(_, _, _)
dropAt(imgs, drop, i) ==
    IF i > Len(imgs) THEN <<>>
    ELSE (IF i \in drop THEN <<>> ELSE <<imgs[i]>>) \o dropAt(imgs, drop, i + 1)

\* contentElement.find('script, style, ...').remove(): the document the
\* later extraction reads
afterContent(doc, body) ==
    IF body.matched THEN [doc EXCEPT !.imgs = dropAt(doc.imgs, body.stripped, 1)]
    ELSE doc

\* .map(p => text.trim()).filter(text => text.length > 0).join('\n\n')
RECURSIVE joinParagraphs(_)
joinParagraphs(ps) ==
    IF ps = <<>> THEN EmptyStr
    ELSE IF Trim(Head(ps)) = EmptyStr THEN joinParagraphs(Tail(ps))
    ELSE IF joinParagraphs(Tail(ps)) = EmptyStr THEN Trim(Head(ps))
    ELSE Trim(Head(ps)) \o <<"\n\n">> \o joinParagraphs(Tail(ps))

\* the text of the first body container, else the paragraphs of the page
extendedContent(body) ==
    IF body.matched /\ Trim(body.text) # EmptyStr THEN Trim(body.text)
    ELSE joinParagraphs(body.paragraphs)

\* the image extraction, which follows the content extraction
extendedImage(doc, body, sels, articleUrl) ==
    expressImage(afterContent(doc, body), sels, articleUrl)

\* `if (title) newsItems.push({...})` of the variant
extendedPush(title, author, formattedDate, imageUrl, content, host, articleUrl) ==
    IF title # EmptyStr
    THEN Ended("pushed",
           [ title    |-> title,
             author   |-> IF author # EmptyStr THEN author ELSE <<"Unknown">>,
             date     |-> IF formattedDate # EmptyStr THEN formattedDate ELSE NowISO,
             source   |-> host,
             url      |-> articleUrl,
             imageUrl |-> IF imageUrl # EmptyStr THEN Some(imageUrl) ELSE None,
             content  |-> IF content # EmptyStr THEN Some(content) ELSE None ])
    ELSE Ended("untitled", NoItem)

\* the documents the variant is applied to: as for the Express handler, the
\* author and date documents with a title element, and documents of img
\* elements with every body container
ExtImgAttrs ==
    { <<>>,
      [src |-> <<"/", "a.jpg">>],
      [src |-> <<"https", "://", "cdn.com", "/", "b.png", "?", "w=200">>] }

ExtImgPool(profile) ==
    {Img(m, a) : m \in {{}, {profile.image[1]}}, a \in ExtImgAttrs}

WithTitle(doc, profile) ==
    [doc EXCEPT !.els = @ \cup {Elem(profile.title[1], <<"A">>, <<>>)}]

IsExtendedDoc(doc, profile) ==
    \/ \E S \in SubsetsUpTo(Len(profile.title), MaxMatched) :
         \E kinds \in [S -> 1..Len(TextValues)] :
            doc = TextDoc(profile.title, TextValues, S, kinds, <<>>)
    \/ \E S \in SubsetsUpTo(Len(profile.author), MaxMatched) \ {{}} :
         \E kinds \in [S -> 1..Len(TextValues)] :
            doc = WithTitle(TextDoc(profile.author, TextValues, S, kinds, <<>>),
                            profile)
    \/ \E S \in SubsetsUpTo(Len(profile.date), MaxMatched) \ {{}} :
         \E kinds \in [S -> 1..Len(DateValues)] :
            doc = WithTitle(TextDoc(profile.date, DateValues, S, kinds, <<>>),
                            profile)
    \/ \E i \in SeqsUpTo(ExtImgPool(profile), MaxImgs) \ {<<>>} :
            doc = [els |-> {}, headings |-> <<>>, imgs |-> i]

Bodies(doc) ==
    IF doc.imgs = <<>> THEN {NoBody}
    ELSE [matched : BOOLEAN,
          text : {EmptyStr, <<" ", "T">>},
          stripped : SUBSET (1..Len(doc.imgs)),
          paragraphs : {<<>>, << <<"P">>, <<" ">>, <<"Q">> >>}]

InitExtended ==
    /\ request \in {r \in Requests : r.handler = "express" /\ r.url = Some(SiteUrl)}
    /\ pc = "ExtendedExtraction"
    /\ response = None
    /\ upstream = None
    /\ listDoc = NoDoc
    /\ idx = 0
    /\ newsItems = <<>>
    /\ fetches = <<>>
    /\ lastArticle = "none"
    /\ failures = FALSE
    /\ exProfile \in {"default", "abs-cbn.com"}
    /\ IsExtendedDoc(exDoc, websiteSelectors("express")[exProfile])
    /\ articleLinks = <<ExArticleUrl>>
    /\ exOut = None
    /\ exBody \in Bodies(exDoc)
    /\ client = NoClient
    /\ tz = 0
    /\ TwoIdle

\* the extraction of the variant on exDoc: title, author and date, the
\* content, the image, the date formatting and the push
ExtractExtended ==
    /\ pc = "ExtendedExtraction"
    /\ exOut = None
    /\ \E title \in {firstMatchText(exDoc, exSelectors.title)},
          author \in {firstMatchText(exDoc, exSelectors.author)},
          date \in {firstMatchText(exDoc, exSelectors.date)},
          content \in {extendedContent(exBody)},
          imageUrl \in {extendedImage(exDoc, exBody, exSelectors, articleLinks[1])} :
          \E formattedDate \in {formattedDateOf(date, tz)} :
             exOut' = Some([ title    |-> title,
                             author   |-> author,
                             date     |-> date,
                             formattedDate |-> formattedDate,
                             content  |-> content,
                             imageUrl |-> imageUrl,
                             record   |-> extendedPush(title, author, formattedDate,
                                                       imageUrl, content, hostname,
                                                       articleLinks[1]) ])
    /\ UNCHANGED <<requestVars, exProfile, exDoc, exBody, tz, client, twoVars>>

NextExtended == ExtractExtended

SpecExtended == InitExtended /\ [][NextExtended]_vars

\* C28: the variant keeps last-match-wins for title, author and date: the
\* field is the value of the last selector of the list that yields a
\* non-empty value, so an article one of whose title selectors yields a text
\* gets its record.
C28_ExtendedLastMatchWins ==
    exOut # None =>
        /\ LastWins(exOut[1].title, exDoc, exSelectors.title, titleYield)
        /\ LastWins(exOut[1].author, exDoc, exSelectors.author, authorValue)
        /\ LastWins(exOut[1].date, exDoc, exSelectors.date, authorValue)
        /\ Yielding(exDoc, exSelectors.title, titleYield) # {} => Pushed

\* C29: the content extraction leaves the image alone: the image extracted
\* is the one extracted from the document as it was fetched, whether or not
\* a body container matched and whatever was stripped from it.
C29_BodyLeavesImage ==
    exOut # None =>
        exOut[1].imageUrl = expressImage(exDoc, exSelectors, articleLinks[1])

-----------------------------------------------------------------------------
(* The React client: the server check that runs when the component mounts  *)
(* and the scrape the button starts.  Each await is a point where the      *)
(* other call, and the user, may act.                                      *)

OfflineMsg == <<"Server is offline. Please make sure the server is running on port 5000.">>
EnterUrlMsg == <<"Please enter a website URL">>
NoNewsMsg == <<"No news articles found. The website might use a different structure or dynamic loading.">>
FailedMsg == <<"Failed to scrape news. Please try a different URL.">>
NoServerMsg == <<"No response from server. Please make sure the server is running.">>
SetupMsg == <<"Error: ", "message">>

\* what the user types into the URL field
ClientUrls == {EmptyStr, SiteUrl, AbsCbnUrl}

\* what axios.post(`${API_BASE_URL}/scrape`) ends in
ScrapeOutcomes ==
    [kind : {"ok"}, news : {<<>>, <<"item">>, <<"item", "other">>}, error : {None}]
    \cup [kind : {"response"}, news : {<<>>},
          error : {None, Some(<<"No news articles found">>)}]
    \cup [kind : {"request", "other"}, news : {<<>>}, error : {None}]

\* the message the catch block of scrapeNews sets
scrapeError(o) ==
    IF o.kind = "response"
    THEN IF Truthy(o.error) THEN o.error[1] ELSE FailedMsg
    ELSE IF o.kind = "request" THEN NoServerMsg
    ELSE SetupMsg

ServerIdle ==
    /\ request \in {r \in Requests : r.handler = "express" /\ r.url = Some(SiteUrl)}
    /\ response = None
    /\ upstream = None
    /\ listDoc = NoDoc
    /\ articleLinks = <<>>
    /\ idx = 0
    /\ newsItems = <<>>
    /\ fetches = <<>>
    /\ lastArticle = "none"
    /\ failures = FALSE
    /\ exProfile = "default"
    /\ exDoc = DocEmpty
    /\ exOut = None
    /\ exBody = NoBody
    /\ tz = 0
    /\ TwoIdle

\* the component before its effect has run: the useState defaults
InitClient ==
    /\ ServerIdle
    /\ pc = "Client"
    /\ client = NoClient

\* useEffect(() => { checkServer() }, []): the request to /test is sent
Mount ==
    /\ pc = "Client"
    /\ client.check = "unmounted"
    /\ client' = [client EXCEPT !.check = "awaiting"]
    /\ UNCHANGED <<requestVars, extractVars, tz, twoVars>>

\* checkServer after its await: the request succeeded
CheckOk ==
    /\ client.check = "awaiting"
    /\ client' = [client EXCEPT !.check = "done", !.serverStatus = "online"]
    /\ UNCHANGED <<requestVars, extractVars, tz, twoVars>>

\* checkServer after its await: the request failed
CheckFailed ==
    /\ client.check = "awaiting"
    /\ client' = [client EXCEPT !.check = "done", !.serverStatus = "offline",
                                !.error = OfflineMsg]
    /\ UNCHANGED <<requestVars, extractVars, tz, twoVars>>

\* onChange of the URL field, onClick of a suggested site
SetUrl ==
    /\ pc = "Client"
    /\ \E u \in ClientUrls \ {client.url} : client' = [client EXCEPT !.url = u]
    /\ UNCHANGED <<requestVars, extractVars, tz, twoVars>>

\* scrapeNews up to its await; the button is disabled while loading
ScrapeStart ==
    /\ pc = "Client"
    /\ ~client.loading
    /\ client' = IF client.url = EmptyStr
                 THEN [client EXCEPT !.error = EnterUrlMsg, !.scrape = "completed"]
                 ELSE [client EXCEPT !.loading = TRUE, !.error = EmptyStr,
                                     !.news = <<>>, !.scrape = "awaiting"]
    /\ UNCHANGED <<requestVars, extractVars, tz, twoVars>>

\* scrapeNews after its await: try, catch and finally
ScrapeEnd ==
    /\ client.scrape = "awaiting"
    /\ \E o \in ScrapeOutcomes :
        client' = [client EXCEPT
                     !.news = IF o.kind = "ok" /\ o.news # <<>> THEN o.news ELSE @,
                     !.error = IF o.kind = "ok"
                               THEN IF o.news # <<>> THEN @ ELSE NoNewsMsg
                               ELSE scrapeError(o),
                     !.loading = FALSE,
                     !.scrape = "completed"]
    /\ UNCHANGED <<requestVars, extractVars, tz, twoVars>>

NextClient ==
    \/ Mount
    \/ CheckOk
    \/ CheckFailed
    \/ SetUrl
    \/ ScrapeStart
    \/ ScrapeEnd

SpecClient == InitClient /\ [][NextClient]_vars

\* C30: whatever the interleaving of checkServer and scrapeNews, once
\* scrapeNews has completed loading is false, and a non-empty news list is
\* never shown together with a non-empty error message.
C30_NewsWithoutError ==
    /\ client.scrape = "completed" => ~client.loading
    /\ ~(client.news # <<>> /\ client.error # EmptyStr)

=============================================================================
